---- MODULE Spec2Model ----
(***************************************************************************)
(* State-machine model of the orchestration layer of Database-manager      *)
(* (dbmplus): the migration engine (immediate move, delayed-move queue     *)
(* and its daily timer, path-readiness monitor, retry queue), the task     *)
(* engine, the ingest controller and the file watcher.                     *)
(*                                                                         *)
(* Times are wall-clock seconds counted from midnight of the first day.    *)
(* A path is a triple <<product, tree, name>>; Null is the empty tuple.    *)
(***************************************************************************)
EXTENDS Integers, Sequences, FiniteSets, TLC

(***************************************************************************)
(* Bounds of the model                                                     *)
(***************************************************************************)
MaxQueue == 2        \* entries the delayed-move queue may hold
MaxTasks == 2        \* tasks the task engine may create
MaxShortTicks == 2   \* clock ticks explored around a timer fire
MaxLongTicks == 30   \* clock ticks explored for a retry chain
MaxIngestTasks == 3  \* tasks created while the ingest controller runs
MaxReapHours == 2    \* hours the clock runs while results age
MaxDays == 3         \* days the clock runs from the Friday the timer is started
MaxFiles == 2        \* csv files the disk may hold
MaxRev == 1          \* updates a catalog component may receive
MaxReports == 2      \* archive reports that are followed
MaxLotDirs == 3      \* lot directories with a csv file in SpecLotKeys

(***************************************************************************)
(* Program constants and configuration defaults                            *)
(***************************************************************************)
RetryDelay == 300          \* _add_to_retry_queue(retry_delay=300)
MaxRetries == 5            \* 'max_retries': 5
MaxBackoff == 3600         \* min(300 * 2**n, 3600)
DaySeconds == 86400        \* timedelta(days=1)
SchedHour == 2             \* schedule "02:00"
SchedMinute == 0
LedgerMaxRetryCount == 3   \* auto_move.retry_mechanism.max_retry_count
AutoMoveEnabled == TRUE    \* auto_move.enabled
DelayedEnabled == TRUE     \* auto_move.delayed.enabled
SourceProduct == "P1"      \* product that holds the lot
TargetProduct == "TP"      \* auto_move.target_product
MaxConcurrentTasks == 2    \* OnlineProcessManager(max_concurrent_tasks=2)
ImmediateFileTypes == <<"csv", "map">>   \* auto_move.immediate.file_types
DelayedFileTypes == <<"org", "roi">>     \* auto_move.delayed.file_types

Components == {"CMP1", "CMP2"}
StationDir == "STATION"    \* name standing for the <lot>/<station> directory
LotDir == "LOT"            \* name standing for the <lot> directory
Null == <<>>

TickSeconds == RetryDelay
HourSeconds == 3600          \* max_age_hours * 3600

\* auto_move.delayed.schedule.days, default monday..friday; days of the week
\* are numbered from Monday = 0 and the clock starts on a Monday
ScheduledDays == 0..4
Weekday(t) == (t \div DaySeconds) % 7
ScheduledTime == SchedHour * 3600 + SchedMinute * 60

VARIABLES
    now,                \* datetime.datetime.now()
    fs,                 \* set of paths that exist on disk
    components,         \* db_manager.data_cache["components"]
    move_queue,         \* DelayedMoveManager.move_queue
    failed_components,  \* DelayedMoveManager.failed_components
    is_running,         \* DelayedMoveManager.is_running
    timer_active,       \* DelayedMoveManager.scheduler is armed
    fire_at,            \* time the armed scheduler fires
    retry_queue,        \* DataProcessor.retry_queue
    path_monitors,      \* DataProcessor.path_monitors
    attempts,           \* failed move_files calls of the retry sweep since the entry
                        \* was made, counted up to MaxRetries + 1
    tasks,              \* DataProcessor.active_tasks, in the order of creation
    task_results,       \* DataProcessor.task_results
    online_running,     \* OnlineProcessManager.is_running
    processing_queue,   \* OnlineProcessManager.processing_queue
    current_tasks,      \* OnlineProcessManager.current_tasks
    task_map,           \* OnlineProcessManager.task_map (its keys)
    delivered,          \* tasks whose task_completed signal reached the slots
    ingest_created,     \* tasks that _process_next created
    raw_files,          \* the monitored files on disk: name -> [dir, size, mtime]
    known_dirs,         \* station directories the catalog lists
    processed_files,    \* FileWatcher.processed_files
    found,              \* file_found emissions counted per (name, size, mtime)
    file_events,        \* file_found signals emitted and not yet handled by the slot
    processing_logs,    \* OnlineProcessManager.processing_logs: the files that have a log
    dropped_files,      \* files enqueue_file gave up on because get_lot found no lot
    log_status,         \* ProcessingLog.status of the log mapped to each dispatched task
    main_files,         \* files under the local storage path: file -> [size, age]
    archive_files,      \* files under the archive path: file -> size
    archive_reports,    \* StorageMonitor.archive_reports
    last_scheduled_run, \* StorageMoveManager.last_scheduled_run
    move_call,          \* the safe_move_file call between its copy and its check
    disk,               \* csv files under base_path: <<product, lot, component>>
    data_cache,         \* DatabaseManager.data_cache: products, lots, components, lot_keys
    cache_file,         \* the cells of db_cache.json
    db_threads,         \* position of each thread inside a DatabaseManager call
    last_call           \* the handler that ran last and its outcome

catalogVars == <<fs, components>>
delayedVars == <<move_queue, failed_components>>
schedulerVars == <<is_running, timer_active, fire_at>>
retryVars == <<retry_queue, path_monitors, attempts>>
taskVars == <<tasks, task_results>>
ingestVars == <<online_running, processing_queue, current_tasks, task_map,
                delivered, ingest_created>>
watcherVars == <<raw_files, known_dirs, processed_files, found>>
dbVars == <<disk, data_cache, cache_file, db_threads>>
pickupVars == <<file_events, processing_logs, dropped_files, log_status>>
storageVars == <<main_files, archive_files, archive_reports, last_scheduled_run,
                 move_call>>

vars == <<now, catalogVars, delayedVars, schedulerVars, retryVars, taskVars,
          ingestVars, watcherVars, dbVars, pickupVars, storageVars, last_call>>

Call(op, arg, ok) == [op |-> op, arg |-> arg, ok |-> ok]

Min(a, b) == IF a <= b THEN a ELSE b

(***************************************************************************)
(* Filesystem and path templates (config.get_path)                         *)
(***************************************************************************)
GetPath(product, tree, name) == <<product, tree, name>>

Parent(path) == <<path[1], path[2], StationDir>>

\* the lot directory, parent of the station directory
Grandparent(path) == <<path[1], path[2], LotDir>>

Exists(fsx, path) == path \in fsx

\* shutil.move(source, target) after ensure_directory(target.parent)
ShutilMove(fsx, source, target) ==
    (fsx \ {source}) \cup {target, Parent(target), Grandparent(target)}

\* DataProcessor._check_path_development_stage
CheckPathDevelopmentStage(fsx, base_path, target_path) ==
    IF Exists(fsx, target_path) THEN "complete"
    ELSE IF Exists(fsx, Parent(target_path)) THEN "partial"
    ELSE IF Exists(fsx, base_path) THEN "base"
    ELSE "none"

(***************************************************************************)
(* Catalog                                                                 *)
(***************************************************************************)
\* ComponentInfo; product_id is the attribute move_files attaches
ComponentInfo(csv) ==
    [csv_path |-> csv, original_csv_path |-> Null, org_path |-> Null,
     roi_path |-> Null, basemap_path |-> Null, lossmap_path |-> Null,
     fpy_path |-> Null, product_id |-> ""]

\* a dict with one key set
Put(dict, key, value) ==
    [k \in DOMAIN dict \cup {key} |-> IF k = key THEN value ELSE dict[k]]

\* a dict with one key deleted
Del(dict, key) == [k \in DOMAIN dict \ {key} |-> dict[k]]

(***************************************************************************)
(* Migration engine: retry queue, path monitor, move_files                 *)
(*                                                                         *)
(* A world w is the part of the state move_files reads and writes:         *)
(* [fs, comps, rq, pm, readd]; readd is the set of components whose retry  *)
(* entry was replaced by a fresh dict during the call.                     *)
(***************************************************************************)
World == [fs |-> fs, comps |-> components, rq |-> retry_queue,
          pm |-> path_monitors, readd |-> {}]

\* DataProcessor._add_to_retry_queue
AddToRetryQueue(w, c, src, tgt, types) ==
    [w EXCEPT !.rq = Put(@, c, [source_product |-> src, target_product |-> tgt,
                                file_types |-> types,
                                retry_time |-> now + RetryDelay,
                                retry_count |-> 0,
                                max_retries |-> MaxRetries]),
              !.readd = @ \cup {c}]

IsDirType(t) == t \in {"org", "roi"}

RECURSIVE MoveFiles(_, _, _, _, _, _)
RECURSIVE MonitorPathCompletion(_, _, _, _, _, _)

\* move_files, the csv branch
MoveCsv(st, c, src, tgt) ==
    LET source_file == GetPath(src, "csv", c)
        target_file == GetPath(tgt, "csv", c)
    IN IF Exists(st.w.fs, source_file)
       THEN [st EXCEPT !.w.fs = ShutilMove(@, source_file, target_file),
                       !.w.comps[c].csv_path = target_file,
                       !.moved = @ + 1]
       ELSE [st EXCEPT !.failed = @ + 1]

\* move_files, one entry of map_types
MoveMap(st, c, src, tgt, tree, attr_name) ==
    LET source_map == GetPath(src, tree, c)
        target_map == GetPath(tgt, tree, c)
    IN IF Exists(st.w.fs, source_map)
       THEN [st EXCEPT !.w.fs = ShutilMove(@, source_map, target_map),
                       !.w.comps[c][attr_name] = target_map,
                       !.moved = @ + 1]
       ELSE st

\* move_files, the org and roi branches (the two are the same code)
MoveDir(st, c, src, tgt, tree, types, io) ==
    LET source_dir == GetPath(src, tree, c)
        target_dir == GetPath(tgt, tree, c)
        base_path == GetPath(src, tree, c)
        path_stage == CheckPathDevelopmentStage(st.w.fs, base_path, source_dir)
    IN CASE path_stage = "complete" ->
              IF tree \in io
              THEN [st EXCEPT !.failed = @ + 1]
              ELSE [st EXCEPT !.w.fs = ShutilMove(@, source_dir, target_dir),
                              !.moved = @ + 1]
         [] path_stage \in {"partial", "base"} ->
              [st EXCEPT !.w = MonitorPathCompletion(@, c, src, tgt, types, io),
                         !.failed = @ + 1]
         [] OTHER ->
              [st EXCEPT !.w = AddToRetryQueue(@, c, src, tgt, types),
                         !.failed = @ + 1]

\* move_files, the body of the loop over file_types
MoveType(st, c, src, tgt, t, types, io) ==
    CASE t = "csv" -> MoveCsv(st, c, src, tgt)
      [] t = "map" ->
           MoveMap(MoveMap(MoveMap(st, c, src, tgt, "basemap", "basemap_path"),
                           c, src, tgt, "lossmap", "lossmap_path"),
                   c, src, tgt, "fpy", "fpy_path")
      [] IsDirType(t) -> MoveDir(st, c, src, tgt, t, types, io)
      [] OTHER -> st

RECURSIVE MoveLoop(_, _, _, _, _, _, _)
MoveLoop(st, c, src, tgt, types, io, i) ==
    IF i > Len(types) THEN st
    ELSE MoveLoop(MoveType(st, c, src, tgt, types[i], types, io),
                  c, src, tgt, types, io, i + 1)

\* DataProcessor.move_files; io is the set of trees whose shutil.move raises
MoveFiles(w, c, src, tgt, types, io) ==
    IF c \notin DOMAIN w.comps
    THEN [w |-> w, ok |-> FALSE]
    ELSE LET st == MoveLoop([w |-> w, moved |-> 0, failed |-> 0],
                            c, src, tgt, types, io, 1)
         IN [w |-> [st.w EXCEPT !.comps[c].product_id = tgt],
             ok |-> (st.moved > 0 \/ st.failed = 0)]

\* DataProcessor._monitor_path_completion
MonitorPathCompletion(w, c, src, tgt, types, io) ==
    LET all_paths_complete ==
            \A i \in 1..Len(types) :
                IsDirType(types[i]) => Exists(w.fs, GetPath(src, types[i], c))
    IN IF all_paths_complete
       THEN LET r == MoveFiles(w, c, src, tgt, types, io)
            IN IF r.ok
               THEN [r.w EXCEPT !.pm = IF c \in DOMAIN @ THEN Del(@, c) ELSE @]
               ELSE AddToRetryQueue(r.w, c, src, tgt, types)
       ELSE IF c \notin DOMAIN w.pm
            THEN [w EXCEPT !.pm = Put(@, c, [source_product |-> src,
                                             target_product |-> tgt,
                                             file_types |-> types])]
            ELSE w

\* DataProcessor._retry_component_move for one due entry; att counts the
\* consecutive failed attempts of the sweep per component
RetryComponentMove(w, att, c, retry_info, io) ==
    LET r == MoveFiles(w, c, retry_info.source_product, retry_info.target_product,
                       retry_info.file_types, io)
        retry_count == retry_info.retry_count + 1
        retry_delay == Min(RetryDelay * (2 ^ retry_count), MaxBackoff)
    IN IF r.ok
       THEN [w |-> [r.w EXCEPT !.rq = Del(@, c)], att |-> [att EXCEPT ![c] = 0]]
       ELSE [w |-> IF c \in r.w.readd
                   THEN r.w   \* the counter is raised on the dict that was replaced
                   ELSE [r.w EXCEPT !.rq[c].retry_count = retry_count,
                                    !.rq[c].retry_time = now + retry_delay],
             att |-> [att EXCEPT ![c] = Min(@ + 1, MaxRetries + 1)]]

\* DataProcessor._process_retry_queue, the loop over components_to_retry
\* dropped collects the components removed for having used up max_retries
RECURSIVE RetryLoop(_, _, _, _, _)
RetryLoop(w, att, todo, io, dropped) ==
    IF todo = {} THEN [w |-> w, att |-> att, dropped |-> dropped]
    ELSE LET c == CHOOSE x \in todo : TRUE
             retry_info == w.rq[c]
             retry == retry_info.retry_count < retry_info.max_retries
             r == IF retry
                  THEN RetryComponentMove(w, att, c, retry_info, io)
                  ELSE [w |-> [w EXCEPT !.rq = Del(@, c)], att |-> att]
         IN RetryLoop(r.w, r.att, todo \ {c}, io,
                      IF retry THEN dropped ELSE dropped \cup {c})

\* DataProcessor._process_retry_queue
ProcessRetryQueue(w, att, io) ==
    LET components_to_retry == {c \in DOMAIN w.rq : now >= w.rq[c].retry_time}
    IN RetryLoop(w, att, components_to_retry, io, {})

\* DataProcessor._check_path_completion, the loop over path_monitors
RECURSIVE CheckPathLoop(_, _, _)
CheckPathLoop(w, todo, io) ==
    IF todo = {} THEN w
    ELSE LET c == CHOOSE x \in todo : TRUE
             m == w.pm[c]
         IN CheckPathLoop(MonitorPathCompletion(w, c, m.source_product,
                                                m.target_product, m.file_types, io),
                          todo \ {c}, io)

\* DataProcessor._check_path_completion
CheckPathCompletion(w, io) == CheckPathLoop(w, DOMAIN w.pm, io)

(***************************************************************************)
(* Migration engine: delayed-move queue and its scheduler                  *)
(***************************************************************************)
\* DelayedMoveManager.add_to_delayed_queue
AddToDelayedQueue(mq, c, src, tgt) ==
    IF c \in DOMAIN failed_components
       /\ ~(failed_components[c] < LedgerMaxRetryCount)
    THEN mq
    ELSE Append(mq, [component_id |-> c, source_product |-> src,
                     target_product |-> tgt])

\* start_scheduler: the next occurrence of the configured time after t
NextRun(t) ==
    LET next_run == (t \div DaySeconds) * DaySeconds + ScheduledTime
    IN IF next_run <= t THEN next_run + DaySeconds ELSE next_run

\* DelayedMoveManager.start_scheduler on s = [is_running, timer_active, fire_at]
StartSchedulerOn(s) ==
    IF s.is_running THEN s
    ELSE [is_running |-> TRUE, timer_active |-> TRUE, fire_at |-> NextRun(now)]

\* DataProcessor._auto_move_immediate_files; the result is [w, mq]
AutoMoveImmediateFiles(w, mq, c) ==
    IF ~AutoMoveEnabled \/ SourceProduct = TargetProduct
    THEN [w |-> w, mq |-> mq]
    ELSE LET r == MoveFiles(w, c, SourceProduct, TargetProduct,
                            ImmediateFileTypes, {})
         IN [w |-> r.w,
             mq |-> IF r.ok /\ DelayedEnabled
                    THEN AddToDelayedQueue(mq, c, SourceProduct, TargetProduct)
                    ELSE mq]

(***************************************************************************)
(* Pipeline: generate_basemap                                              *)
(* inp gives the outcome of each step that depends on file contents:       *)
(* [rule_ok, align, strip_ok, read_ok, render_ok]                          *)
(***************************************************************************)
AllStepsOk == [rule_ok |-> TRUE, align |-> "success", strip_ok |-> TRUE,
               read_ok |-> TRUE, render_ok |-> TRUE]

\* every step succeeds, or exactly one step has another outcome
BasemapInputs ==
    {AllStepsOk,
     [AllStepsOk EXCEPT !.rule_ok = FALSE],
     [AllStepsOk EXCEPT !.align = "fail"],
     [AllStepsOk EXCEPT !.align = "error"],
     [AllStepsOk EXCEPT !.strip_ok = FALSE],
     [AllStepsOk EXCEPT !.read_ok = FALSE],
     [AllStepsOk EXCEPT !.render_ok = FALSE]}

\* AOI_FILENAME_PATTERN matches the raw files of the processed_csv tree
IsAoiName(path) == path[2] = "processed_csv"

\* generate_basemap steps 1 to 3; go says whether step 4 is reached
BasemapSteps123(w, c, inp) ==
    LET comp == w.comps[c]
        target_csv_path == GetPath(SourceProduct, "csv", c)
    IN IF ~IsAoiName(comp.csv_path) THEN [w |-> w, go |-> inp.rule_ok]
       ELSE IF ~inp.rule_ok THEN [w |-> w, go |-> FALSE]
       ELSE IF inp.align = "fail" THEN [w |-> w, go |-> FALSE]
       ELSE IF ~inp.strip_ok THEN [w |-> w, go |-> FALSE]
       ELSE [w |-> [w EXCEPT
                      !.fs = @ \cup {target_csv_path, Parent(target_csv_path)},
                      !.comps[c].original_csv_path = comp.csv_path,
                      !.comps[c].csv_path = target_csv_path],
             go |-> TRUE]

\* DataProcessor.generate_basemap; the result is [w, mq, ok]
GenerateBasemap(w, mq, c, inp) ==
    LET comp == w.comps[c]
        output_path == GetPath(SourceProduct, "basemap", c)
    IN IF comp.csv_path = Null \/ ~Exists(w.fs, comp.csv_path)
       THEN [w |-> w, mq |-> mq, ok |-> FALSE]
       ELSE LET s3 == BasemapSteps123(w, c, inp)
            IN IF ~s3.go \/ ~inp.read_ok \/ ~inp.render_ok
               THEN [w |-> s3.w, mq |-> mq, ok |-> FALSE]
               ELSE LET w4 == [s3.w EXCEPT
                                 !.fs = @ \cup {output_path, Parent(output_path)},
                                 !.comps[c].basemap_path = output_path]
                        h == AutoMoveImmediateFiles(w4, mq, c)
                    IN [w |-> h.w, mq |-> h.mq, ok |-> TRUE]

\* DataProcessor.batch_move_files, the pool's work: move_files for every
\* component of the list; the result is [w, ok] with the two counters of the
\* report and the number of move_files calls made
RECURSIVE BatchMoveLoop(_, _, _, _, _, _, _)
BatchMoveLoop(w, components_data, tgt, types, io, i, counts) ==
    IF i > Len(components_data)
    THEN [w |-> w, ok |-> (counts[1] > 0 \/ counts[2] = 0),
          success_count |-> counts[1], fail_count |-> counts[2],
          calls |-> i - 1]
    ELSE LET r == MoveFiles(w, components_data[i][1],
                            components_data[i][2], tgt, types, io)
         IN BatchMoveLoop(r.w, components_data, tgt, types, io, i + 1,
                          IF r.ok THEN <<counts[1] + 1, counts[2]>>
                          ELSE <<counts[1], counts[2] + 1>>)

\* the attributes of the OnlineProcessManager instance online_manager: its
\* signals, the fields __init__ sets and its methods
OnlineManagerAttrs ==
    {"log_updated", "processing_status_changed", "processing_queue",
     "processing_logs", "file_watcher", "max_concurrent_tasks", "current_tasks",
     "is_running", "processed_count", "failed_count", "process_timer",
     "task_map", "lock", "start", "stop", "enqueue_file", "_process_next",
     "_on_task_completed", "clear_logs", "get_logs"}

\* DataProcessor.batch_move_files: it first asks online_manager.create_log
\* for the batch log; an attribute online_manager does not have raises, and
\* the handler around the whole body returns False before any move_files
BatchMoveFiles(w, components_data, tgt, types, io) ==
    IF "create_log" \in OnlineManagerAttrs
    THEN BatchMoveLoop(w, components_data, tgt, types, io, 1, <<0, 0>>)
    ELSE [w |-> w, ok |-> FALSE, success_count |-> 0, fail_count |-> 0, calls |-> 0]

(***************************************************************************)
(* Task engine                                                             *)
(***************************************************************************)
NoParams == [components_data |-> <<>>, source_product |-> "",
             target_product |-> "", file_types |-> <<>>]

\* completed_at of a task that has not ended (None)
NoTime == -1

\* ProcessingTask as create_task builds it; pc is the position of the
\* task's thread in _run_task, emitted counts task_completed.emit calls,
\* cancelled records that cancel_task returned True for the task, active
\* that the task is a key of active_tasks
ProcessingTask(task_type, component_id, params) ==
    [task_type |-> task_type, component_id |-> component_id,
     status |-> "pending", message |-> "", pc |-> "start",
     success |-> FALSE, result |-> "none", emitted |-> 0, cancelled |-> FALSE,
     params |-> params, completed_at |-> NoTime, active |-> TRUE]

\* ProcessingTask.to_dict: the keys the task engine reads back
ToDict(task) ==
    [status |-> task.status, message |-> task.message,
     completed_at |-> task.completed_at]

\* dict.get(key) on a to_dict record, None for a key it does not have
DictGet(dict, key) == IF key \in DOMAIN dict THEN dict[key] ELSE NoTime

\* an entry of task_results
TaskResult(success, message, task) ==
    [success |-> success, message |-> message, task |-> ToDict(task)]

\* DataProcessor.get_task_status: the status it reports, "unknown" for a
\* task id that is in neither table
GetTaskStatus(i) ==
    IF i \in DOMAIN task_results THEN task_results[i].task.status
    ELSE IF i \in 1..Len(tasks) /\ tasks[i].active THEN tasks[i].status
    ELSE "unknown"

\* DataProcessor.clean_completed_tasks: the ids it collects in to_delete
ToDelete(max_age_hours) ==
    {i \in DOMAIN task_results :
        /\ DictGet(task_results[i].task, "end_time") # NoTime
        /\ now - DictGet(task_results[i].task, "end_time") > max_age_hours * HourSeconds}

\* DataProcessor.create_task
CreateTask(task_type, component_id, params) ==
    Append(tasks, ProcessingTask(task_type, component_id, params))

\* the sets of trees whose shutil.move may raise during one call
IoFailures == {{}, {"org"}, {"org", "roi"}}

\* the failed-attempt count starts again for entries a call created anew
ResetAttempts(att, readd) == [c \in DOMAIN att |-> IF c \in readd THEN 0 ELSE att[c]]

(***************************************************************************)
(* Catalog indexes (DatabaseManager).  Names are sequences of tokens so    *)
(* that the f-string keys, which join names with "_", are computed as the  *)
(* code computes them.                                                     *)
(***************************************************************************)
Sep == <<"_">>
ProductIds == {<<"A">>, <<"B">>, <<"A", "_", "B">>}
LotNames == {<<"X">>, <<"B", "_", "X">>}
Station == <<"S">>
ComponentIds == {<<"C1">>, <<"C2">>}

\* the csv files that may exist: <<product, lot, component>>
Sites ==
    {<<<<"A">>, <<"X">>, <<"C1">>>>, <<<<"B">>, <<"X">>, <<"C1">>>>,
     <<<<"B">>, <<"X">>, <<"C2">>>>, <<<<"B">>, <<"B", "_", "X">>, <<"C1">>>>,
     <<<<"A">>, <<"B", "_", "X">>, <<"C1">>>>, <<<<"A", "_", "B">>, <<"X">>, <<"C1">>>>}

\* f"{product_id}_{lot_id}"
LotKey(product_id, lot_id) == product_id \o Sep \o lot_id

\* f"{product_id}_{lot_id}_{station}_{component_id}"
ComponentKey(product_id, lot_id, station, component_id) ==
    product_id \o Sep \o lot_id \o Sep \o station \o Sep \o component_id

\* str.endswith
EndsWith(str, suffix) ==
    /\ Len(str) >= Len(suffix)
    /\ SubSeq(str, Len(str) - Len(suffix) + 1, Len(str)) = suffix

LotInfo(lot_id, product_id, original_lot_id) ==
    [lot_id |-> lot_id, product_id |-> product_id, original_lot_id |-> original_lot_id]

\* None where a LotInfo is expected
NoLot == LotInfo(<<>>, <<>>, <<>>)

\* the catalog's ComponentInfo: its ids, its csv_path as a site, roi_path
\* with the dataclass default None, and rev, the number of times
\* update_component has stored it
CatalogComponent(component_id, lot_id, csv_path) ==
    [component_id |-> component_id, lot_id |-> lot_id, csv_path |-> csv_path,
     roi_path |-> Null, rev |-> 0]

\* None where a ComponentInfo is expected
NoComponent == CatalogComponent(<<>>, <<>>, <<>>)

\* data_cache as __init__ and scan_database reset it; lots keeps the
\* insertion order of the dict
EmptyCache == [products |-> <<>>, lots |-> <<>>, components |-> <<>>, lot_keys |-> <<>>]

\* data_cache["products"] with a ProductInfo for product_id, which is its
\* list of lot ids: a product not seen before starts with no lots
WithProduct(products, product_id) ==
    IF product_id \in DOMAIN products THEN products
    ELSE Put(products, product_id, <<>>)

\* ProductInfo.add_lot
AddLot(lots, lot_id) ==
    IF \E i \in 1..Len(lots) : lots[i] = lot_id THEN lots ELSE Append(lots, lot_id)

\* data_cache["lots"].get(lot_id)
LotsGet(lots, lot_id) ==
    IF \E i \in 1..Len(lots) : lots[i].lot_id = lot_id
    THEN lots[CHOOSE i \in 1..Len(lots) : lots[i].lot_id = lot_id]
    ELSE NoLot

\* data_cache["lots"][lot.lot_id] = lot
LotsPut(lots, lot) ==
    IF \E i \in 1..Len(lots) : lots[i].lot_id = lot.lot_id
    THEN [i \in 1..Len(lots) |-> IF lots[i].lot_id = lot.lot_id THEN lot ELSE lots[i]]
    ELSE Append(lots, lot)

\* the first lot, in dict order, among those at the positions hits
FirstLot(lots, hits) ==
    IF hits # {}
    THEN lots[CHOOSE i \in hits : \A j \in hits : i <= j]
    ELSE NoLot

\* the lookup get_component, remove_component and update_component share:
\* the lot with that internal id, else the first lot with that original id
LotByIdOrOriginal(cache, lot_id) ==
    IF LotsGet(cache.lots, lot_id) # NoLot THEN LotsGet(cache.lots, lot_id)
    ELSE FirstLot(cache.lots, {i \in 1..Len(cache.lots) :
                                   cache.lots[i].original_lot_id = lot_id})

\* DatabaseManager.get_lot
GetLot(cache, lot_id) ==
    IF LotsGet(cache.lots, lot_id) # NoLot THEN LotsGet(cache.lots, lot_id)
    ELSE IF \E k \in DOMAIN cache.lot_keys : cache.lot_keys[k] = lot_id
         THEN LotsGet(cache.lots, lot_id)
         ELSE FirstLot(cache.lots,
                       {i \in 1..Len(cache.lots) :
                            \/ EndsWith(cache.lots[i].lot_id, Sep \o lot_id)
                            \/ cache.lots[i].lot_id = lot_id})

\* DatabaseManager.get_component
GetComponent(cache, lot_id, station, component_id) ==
    LET lot == LotByIdOrOriginal(cache, lot_id)
        key == ComponentKey(lot.product_id, lot.lot_id, station, component_id)
    IN IF lot = NoLot THEN NoComponent
       ELSE IF key \in DOMAIN cache.components THEN cache.components[key]
       ELSE NoComponent

\* the lot add_component and _scan_directory_structure use for a lot name
\* met under a product: the one lot_keys maps, else a new one whose id is
\* made unique when another product holds that id and which is added to the
\* product's list of lots; the result is the cache with the lot in it
WithLot(cache, product_id, lot_name) ==
    LET lot_key == LotKey(product_id, lot_name)
        existing_lot == LotsGet(cache.lots, lot_name)
        unique_lot_id == IF existing_lot # NoLot /\ existing_lot.product_id # product_id
                         THEN LotKey(product_id, lot_name)
                         ELSE lot_name
    IN IF lot_key \in DOMAIN cache.lot_keys THEN cache
       ELSE [cache EXCEPT
               !.lots = LotsPut(@, LotInfo(unique_lot_id, product_id, lot_name)),
               !.lot_keys = Put(@, lot_key, unique_lot_id),
               !.products[product_id] = AddLot(@, unique_lot_id)]

\* _scan_directory_structure for one csv file of one lot directory
ScanSite(cache, site) ==
    LET product_id == site[1]
        c1 == WithLot([cache EXCEPT !.products = WithProduct(@, product_id)],
                      product_id, site[2])
        lot == LotsGet(c1.lots, c1.lot_keys[LotKey(product_id, site[2])])
        component_key == ComponentKey(product_id, lot.lot_id, Station, site[3])
        component == IF component_key \in DOMAIN c1.components
                     THEN [c1.components[component_key] EXCEPT !.csv_path = site]
                     ELSE CatalogComponent(site[3], lot.lot_id, site)
    IN [c1 EXCEPT !.components = Put(@, component_key, component)]

\* the csv files of the disk in the order os.listdir gives them: products
\* in the order porder, the lots of each product in the order lorder, the
\* files of a lot in the order corder
RECURSIVE ListSites(_, _, _, _, _)
ListSites(files, porder, lorder, corder, i) ==
    IF i > Len(porder) * Len(lorder) * Len(corder) THEN <<>>
    ELSE LET site == <<porder[((i - 1) \div (Len(lorder) * Len(corder))) + 1],
                       lorder[(((i - 1) \div Len(corder)) % Len(lorder)) + 1],
                       corder[((i - 1) % Len(corder)) + 1]>>
         IN (IF site \in files THEN <<site>> ELSE <<>>)
                \o ListSites(files, porder, lorder, corder, i + 1)

\* the orders os.listdir may give
Orders(S) == {o \in [1..Cardinality(S) -> S] : \A x \in S : \E i \in DOMAIN o : o[i] = x}

RECURSIVE ScanSites(_, _)
ScanSites(cache, todo) ==
    IF todo = <<>> THEN cache ELSE ScanSites(ScanSite(cache, Head(todo)), Tail(todo))

\* DatabaseManager.scan_database, up to the save
ScanDatabase(files, porder, lorder) ==
    ScanSites(EmptyCache,
              ListSites(files, porder, lorder,
                        CHOOSE o \in Orders(ComponentIds) : TRUE, 1))

\* DatabaseManager.add_component: [cache, ok]
AddComponent(cache, component) ==
    LET known_lot == GetLot(cache, component.lot_id)
        product_id == component.csv_path[1]
        c1 == IF known_lot # NoLot THEN cache
              ELSE WithLot([cache EXCEPT !.products = WithProduct(@, product_id)],
                           product_id, component.lot_id)
        lot == IF known_lot # NoLot THEN known_lot
               ELSE LotsGet(c1.lots, c1.lot_keys[LotKey(product_id, component.lot_id)])
        stored == IF known_lot # NoLot THEN component
                  ELSE [component EXCEPT !.lot_id = lot.lot_id]
        key == ComponentKey(lot.product_id, stored.lot_id, Station, stored.component_id)
    IN IF key \notin DOMAIN c1.components
       THEN [cache |-> [c1 EXCEPT !.components = Put(@, key, stored)], ok |-> TRUE]
       ELSE [cache |-> c1, ok |-> FALSE]

\* DatabaseManager.update_component: [cache, ok]
UpdateComponent(cache, component) ==
    LET known_lot == GetLot(cache, component.lot_id)
        by_original == FirstLot(cache.lots,
                                {i \in 1..Len(cache.lots) :
                                     cache.lots[i].original_lot_id = component.lot_id})
        lot == IF known_lot # NoLot THEN known_lot ELSE by_original
        stored == IF known_lot # NoLot THEN component
                  ELSE [component EXCEPT !.lot_id = lot.lot_id]
        key == ComponentKey(lot.product_id, stored.lot_id, Station, stored.component_id)
    IN IF lot # NoLot /\ key \in DOMAIN cache.components
       THEN [cache |-> [cache EXCEPT !.components[key] = stored], ok |-> TRUE]
       ELSE [cache |-> cache, ok |-> FALSE]

\* DatabaseManager.remove_component: [cache, ok]
CatalogRemoveComponent(cache, lot_id, station, component_id) ==
    LET lot == LotByIdOrOriginal(cache, lot_id)
        key == ComponentKey(lot.product_id, lot.lot_id, station, component_id)
    IN IF lot # NoLot /\ key \in DOMAIN cache.components
       THEN [cache |-> [cache EXCEPT !.components = Del(@, key)], ok |-> TRUE]
       ELSE [cache |-> cache, ok |-> FALSE]

(***************************************************************************)
(* Actions                                                                 *)
(***************************************************************************)
\* the clock advances
Tick(limit) ==
    /\ now < limit
    /\ now' = now + TickSeconds
    /\ last_call' = Call("tick", "", TRUE)
    /\ UNCHANGED <<storageVars, pickupVars, dbVars, ingestVars, watcherVars, catalogVars, delayedVars, schedulerVars, retryVars, taskVars>>

\* the clock advances to the time the next retry entry falls due
AwaitRetryTime(limit) ==
    /\ \E c \in DOMAIN retry_queue :
          /\ retry_queue[c].retry_time > now
          /\ retry_queue[c].retry_time <= limit
          /\ \A d \in DOMAIN retry_queue :
                 retry_queue[d].retry_time > now =>
                     retry_queue[d].retry_time >= retry_queue[c].retry_time
          /\ now' = retry_queue[c].retry_time
    /\ last_call' = Call("tick", "", TRUE)
    /\ UNCHANGED <<storageVars, pickupVars, dbVars, ingestVars, watcherVars, catalogVars, delayedVars, schedulerVars,
                   retryVars, taskVars>>

\* the clock advances to the time the armed scheduler fires
AwaitFireTime(limit) ==
    /\ timer_active
    /\ fire_at > now
    /\ fire_at <= limit
    /\ now' = fire_at
    /\ last_call' = Call("tick", "", TRUE)
    /\ UNCHANGED <<storageVars, pickupVars, dbVars, ingestVars, watcherVars, catalogVars, delayedVars, schedulerVars,
                   retryVars, taskVars>>

\* MainWindow.init_delayed_move_manager -> DelayedMoveManager.start_scheduler
StartScheduler ==
    /\ ~is_running
    /\ LET s == StartSchedulerOn([is_running |-> is_running,
                                  timer_active |-> timer_active,
                                  fire_at |-> fire_at])
       IN /\ is_running' = s.is_running
          /\ timer_active' = s.timer_active
          /\ fire_at' = s.fire_at
    /\ last_call' = Call("start_scheduler", "", TRUE)
    /\ UNCHANGED <<storageVars, pickupVars, dbVars, ingestVars, watcherVars, now, catalogVars, delayedVars, retryVars, taskVars>>

\* DelayedMoveManager.stop_scheduler
StopScheduler ==
    /\ is_running \/ timer_active
    /\ is_running' = FALSE
    /\ timer_active' = FALSE
    /\ fire_at' = 0
    /\ last_call' = Call("stop_scheduler", "", TRUE)
    /\ UNCHANGED <<storageVars, pickupVars, dbVars, ingestVars, watcherVars, now, catalogVars, delayedVars, retryVars, taskVars>>

\* the drained queue as process_delayed_moves collects it
\* (variant: the entries collected last-in first-out)
ComponentsToMoveLifo(mq) ==
    [i \in 1..Len(mq) |-> <<mq[Len(mq) + 1 - i].component_id,
                             mq[Len(mq) + 1 - i].source_product>>]

ComponentsToMove(mq) ==
    [i \in 1..Len(mq) |-> <<mq[i].component_id, mq[i].source_product>>]

\* the single-shot scheduler fires: DelayedMoveManager.process_delayed_moves
ProcessDelayedMoves ==
    /\ timer_active
    /\ now >= fire_at
    /\ IF move_queue = <<>>
       THEN LET s == StartSchedulerOn([is_running |-> is_running,
                                       timer_active |-> FALSE, fire_at |-> 0])
            IN /\ is_running' = s.is_running
               /\ timer_active' = s.timer_active
               /\ fire_at' = s.fire_at
               /\ UNCHANGED <<ingestVars, watcherVars, move_queue, taskVars>>
       ELSE LET s == StartSchedulerOn([is_running |-> FALSE,
                                       timer_active |-> FALSE, fire_at |-> 0])
            IN /\ Len(tasks) < MaxTasks
               /\ move_queue' = <<>>
               /\ tasks' = CreateTask("batch_move_files",
                                      move_queue[1].component_id,
                                      [NoParams EXCEPT
                                         !.components_data = ComponentsToMove(move_queue),
                                         !.target_product = TargetProduct,
                                         !.file_types = DelayedFileTypes])
               /\ UNCHANGED task_results
               /\ is_running' = s.is_running
               /\ timer_active' = s.timer_active
               /\ fire_at' = s.fire_at
    /\ last_call' = Call("process_delayed_moves", "", TRUE)
    /\ UNCHANGED <<storageVars, pickupVars, dbVars, ingestVars, watcherVars, now, catalogVars, failed_components, retryVars>>

\* DelayedMoveManager.record_component_failure
RecordComponentFailure(c) ==
    /\ (c \in DOMAIN failed_components => failed_components[c] < LedgerMaxRetryCount)
    /\ failed_components' =
           IF c \in DOMAIN failed_components
           THEN [failed_components EXCEPT ![c] = @ + 1]
           ELSE Put(failed_components, c, 0)
    /\ last_call' = Call("record_component_failure", c, TRUE)
    /\ UNCHANGED <<storageVars, pickupVars, dbVars, ingestVars, watcherVars, now, catalogVars, move_queue, schedulerVars, retryVars, taskVars>>

\* a caller (main window, ingest controller) creates a basemap task
CreateBasemapTask(c) ==
    /\ Len(tasks) < MaxTasks
    /\ tasks' = CreateTask("basemap", c, NoParams)
    /\ UNCHANGED task_results
    /\ last_call' = Call("create_task", c, TRUE)
    /\ UNCHANGED <<storageVars, pickupVars, dbVars, ingestVars, watcherVars, now, catalogVars, delayedVars, schedulerVars, retryVars>>

\* _run_task: task.start()
TaskStart(i) ==
    /\ i \in 1..Len(tasks)
    /\ tasks[i].pc = "start"
    /\ tasks' = [tasks EXCEPT ![i].status = "running", ![i].pc = "body"]
    /\ UNCHANGED task_results
    /\ last_call' = Call("task_start", tasks[i].component_id, TRUE)
    /\ UNCHANGED <<storageVars, pickupVars, dbVars, ingestVars, watcherVars, now, catalogVars, delayedVars, schedulerVars, retryVars>>

\* the effect of a task body on the world and the delayed queue: [w, mq, ok]
RunBody(t, inp, io) ==
    CASE t.task_type = "basemap" ->
           IF t.component_id \in DOMAIN components
           THEN GenerateBasemap(World, move_queue, t.component_id, inp)
           ELSE [w |-> World, mq |-> move_queue, ok |-> FALSE]
      [] t.task_type = "move_files" ->
           LET r == MoveFiles(World, t.component_id, t.params.source_product,
                              t.params.target_product, t.params.file_types, io)
           IN [w |-> r.w, mq |-> move_queue, ok |-> r.ok]
      [] t.task_type = "batch_move_files" ->
           LET r == BatchMoveFiles(World, t.params.components_data,
                                   t.params.target_product, t.params.file_types, io)
           IN [w |-> r.w, mq |-> move_queue, ok |-> r.ok]
      [] OTHER -> [w |-> World, mq |-> move_queue, ok |-> FALSE]

\* _run_task: the dispatch on task_type
TaskBody(i) ==
    /\ i \in 1..Len(tasks)
    /\ tasks[i].pc = "body"
    /\ \E inp \in BasemapInputs, io \in IoFailures :
          LET r == RunBody(tasks[i], inp, io)
          IN /\ tasks[i].task_type = "basemap" => io = {}
             /\ tasks[i].task_type # "basemap" =>
                    inp = AllStepsOk
             /\ Len(r.mq) <= MaxQueue
             /\ fs' = r.w.fs
             /\ components' = r.w.comps
             /\ retry_queue' = r.w.rq
             /\ path_monitors' = r.w.pm
             /\ move_queue' = r.mq
             /\ attempts' = ResetAttempts(attempts, r.w.readd)
             /\ tasks' = [tasks EXCEPT ![i].success = r.ok, ![i].pc = "finish"]
             /\ UNCHANGED task_results
             /\ last_call' = Call(tasks[i].task_type, tasks[i].component_id, r.ok)
    /\ UNCHANGED <<storageVars, pickupVars, dbVars, ingestVars, watcherVars, now, failed_components, schedulerVars>>

\* _run_task: task.complete / task.fail and task_results[task_id] = ...
TaskFinish(i) ==
    /\ i \in 1..Len(tasks)
    /\ tasks[i].pc = "finish"
    /\ tasks' = [tasks EXCEPT
                   ![i].status = IF tasks[i].success THEN "completed" ELSE "failed",
                   ![i].message = IF tasks[i].success THEN "done" ELSE "error",
                   ![i].result = IF tasks[i].success THEN "ok" ELSE "fail",
                   ![i].completed_at = now,
                   ![i].pc = "emit"]
    /\ task_results' = Put(task_results, i,
                           TaskResult(tasks[i].success, tasks'[i].message, tasks'[i]))
    /\ last_call' = Call("task_finish", tasks[i].component_id, tasks[i].success)
    /\ UNCHANGED <<storageVars, pickupVars, dbVars, ingestVars, watcherVars, now, catalogVars, delayedVars, schedulerVars, retryVars>>

\* _run_task: signaler.task_completed.emit(task_id, success, message)
TaskEmit(i) ==
    /\ i \in 1..Len(tasks)
    /\ tasks[i].pc = "emit"
    /\ tasks' = [tasks EXCEPT ![i].emitted = @ + 1, ![i].pc = "done"]
    /\ UNCHANGED task_results
    /\ last_call' = Call("task_completed", tasks[i].component_id, tasks[i].success)
    /\ UNCHANGED <<storageVars, pickupVars, dbVars, ingestVars, watcherVars, now, catalogVars, delayedVars, schedulerVars, retryVars>>

\* DataProcessor.cancel_task(task_id), for a task id i that may be unknown
\* (variant: the cancellation also emits task_completed)
CancelTaskEmits(i) ==
    /\ IF i \in 1..Len(tasks) /\ tasks[i].active /\ tasks[i].status = "running"
       THEN /\ tasks' = [tasks EXCEPT ![i].status = "failed",
                                      ![i].result = "cancelled",
                                      ![i].message = "cancelled",
                                      ![i].completed_at = now,
                                      ![i].cancelled = TRUE,
                                      ![i].emitted = @ + 1]
            /\ task_results' = Put(task_results, i,
                                   TaskResult(FALSE, "cancelled", tasks'[i]))
            /\ last_call' = Call("cancel_task", i, TRUE)
       ELSE /\ UNCHANGED taskVars
            /\ last_call' = Call("cancel_task", i, FALSE)
    /\ UNCHANGED <<storageVars, pickupVars, dbVars, ingestVars, watcherVars, now, catalogVars, delayedVars, schedulerVars, retryVars>>

\* (variant: a task is cancelled whatever its status)
CancelTaskAnyStatus(i) ==
    /\ IF i \in 1..Len(tasks) /\ tasks[i].active
       THEN /\ tasks' = [tasks EXCEPT ![i].status = "failed",
                                      ![i].result = "cancelled",
                                      ![i].message = "cancelled",
                                      ![i].completed_at = now,
                                      ![i].cancelled = TRUE]
            /\ task_results' = Put(task_results, i,
                                   TaskResult(FALSE, "cancelled", tasks'[i]))
            /\ last_call' = Call("cancel_task", i, TRUE)
       ELSE /\ UNCHANGED taskVars
            /\ last_call' = Call("cancel_task", i, FALSE)
    /\ UNCHANGED <<storageVars, pickupVars, dbVars, ingestVars, watcherVars, now, catalogVars, delayedVars, schedulerVars, retryVars>>

CancelTask(i) ==
    /\ IF i \in 1..Len(tasks) /\ tasks[i].active /\ tasks[i].status = "running"
       THEN /\ tasks' = [tasks EXCEPT ![i].status = "failed",
                                      ![i].result = "cancelled",
                                      ![i].message = "cancelled",
                                      ![i].completed_at = now,
                                      ![i].cancelled = TRUE]
            /\ task_results' = Put(task_results, i,
                                   TaskResult(FALSE, "cancelled", tasks'[i]))
            /\ last_call' = Call("cancel_task", i, TRUE)
       ELSE /\ UNCHANGED taskVars
            /\ last_call' = Call("cancel_task", i, FALSE)
    /\ UNCHANGED <<storageVars, pickupVars, dbVars, ingestVars, watcherVars, now, catalogVars, delayedVars, schedulerVars, retryVars>>

\* DataProcessor.get_task_status(task_id); the status it reports is kept
\* with the call
GetTaskStatusCall(i) ==
    /\ last_call' = Call("get_task_status", <<i, GetTaskStatus(i)>>, TRUE)
    /\ UNCHANGED <<storageVars, pickupVars, dbVars, ingestVars, watcherVars, now, catalogVars, delayedVars, schedulerVars, retryVars, taskVars>>

\* DataProcessor.clean_completed_tasks(max_age_hours); the number it
\* returns is kept with the call
CleanCompletedTasks(max_age_hours) ==
    /\ LET to_delete == ToDelete(max_age_hours)
       IN /\ tasks' = [i \in 1..Len(tasks) |->
                          IF i \in to_delete THEN [tasks[i] EXCEPT !.active = FALSE]
                          ELSE tasks[i]]
          /\ task_results' = [i \in DOMAIN task_results \ to_delete |-> task_results[i]]
          /\ last_call' = Call("clean_completed_tasks",
                               <<max_age_hours, Cardinality(to_delete)>>, TRUE)
    /\ UNCHANGED <<storageVars, pickupVars, dbVars, ingestVars, watcherVars, now, catalogVars, delayedVars, schedulerVars, retryVars>>

\* an hour passes
HourPasses(limit) ==
    /\ now < limit
    /\ now' = now + HourSeconds
    /\ last_call' = Call("tick", "", TRUE)
    /\ UNCHANGED <<storageVars, pickupVars, dbVars, ingestVars, watcherVars, catalogVars, delayedVars, schedulerVars, retryVars, taskVars>>

\* the retry timer fires: DataProcessor._process_retry_queue
RetrySweep ==
    /\ DOMAIN retry_queue # {}
    /\ \E io \in IoFailures :
          LET r == ProcessRetryQueue(World, attempts, io)
          IN /\ fs' = r.w.fs
             /\ components' = r.w.comps
             /\ retry_queue' = r.w.rq
             /\ path_monitors' = r.w.pm
             /\ attempts' = r.att
             /\ last_call' = Call("process_retry_queue", r.dropped, TRUE)
    /\ UNCHANGED <<storageVars, pickupVars, dbVars, ingestVars, watcherVars, now, delayedVars, schedulerVars, taskVars>>

\* the path timer fires: DataProcessor._check_path_completion
PathSweep ==
    /\ DOMAIN path_monitors # {}
    /\ \E io \in IoFailures :
          LET w == CheckPathCompletion(World, io)
          IN /\ fs' = w.fs
             /\ components' = w.comps
             /\ retry_queue' = w.rq
             /\ path_monitors' = w.pm
             /\ attempts' = ResetAttempts(attempts, w.readd)
    /\ last_call' = Call("check_path_completion", "", TRUE)
    /\ UNCHANGED <<storageVars, pickupVars, dbVars, ingestVars, watcherVars, now, delayedVars, schedulerVars, taskVars>>

\* the inspection station creates the lot directory of a tree
EnvCreateLotDir(tree) ==
    /\ ~Exists(fs, GetPath(SourceProduct, tree, LotDir))
    /\ fs' = fs \cup {GetPath(SourceProduct, tree, LotDir)}
    /\ last_call' = Call("env_create_dir", tree, TRUE)
    /\ UNCHANGED <<storageVars, pickupVars, dbVars, ingestVars, watcherVars, now, components, delayedVars, schedulerVars, retryVars, taskVars>>

\* the inspection station writes a component's org or roi directory:
\* first the station directory (with the lot directory above it), then the
\* component directory
EnvCreateDir(tree, c) ==
    /\ ~Exists(fs, GetPath(SourceProduct, tree, c))
    /\ fs' = IF Exists(fs, GetPath(SourceProduct, tree, StationDir))
             THEN fs \cup {GetPath(SourceProduct, tree, c)}
             ELSE fs \cup {GetPath(SourceProduct, tree, StationDir),
                           GetPath(SourceProduct, tree, LotDir)}
    /\ last_call' = Call("env_create_dir", c, TRUE)
    /\ UNCHANGED <<storageVars, pickupVars, dbVars, ingestVars, watcherVars, now, components, delayedVars, schedulerVars, retryVars, taskVars>>

\* a task body calls generate_basemap(component)
GenerateBasemapCall(c) ==
    /\ c \in DOMAIN components
    /\ \E inp \in BasemapInputs :
          LET r == GenerateBasemap(World, move_queue, c, inp)
          IN /\ Len(r.mq) <= MaxQueue
             /\ fs' = r.w.fs
             /\ components' = r.w.comps
             /\ retry_queue' = r.w.rq
             /\ path_monitors' = r.w.pm
             /\ move_queue' = r.mq
             /\ attempts' = ResetAttempts(attempts, r.w.readd)
             /\ last_call' = [op |-> "generate_basemap", arg |-> c, ok |-> r.ok,
                               align |-> inp.align]
    /\ UNCHANGED <<storageVars, pickupVars, dbVars, ingestVars, watcherVars, now, failed_components, schedulerVars, taskVars>>

\* a task body calls move_files(component, ..., file_types); shutil.move
\* raises for the trees in io
MoveFilesCall(c, types, io) ==
    /\ LET r == MoveFiles(World, c, SourceProduct, TargetProduct, types, io)
       IN /\ fs' = r.w.fs
          /\ components' = r.w.comps
          /\ retry_queue' = r.w.rq
          /\ path_monitors' = r.w.pm
          /\ attempts' = ResetAttempts(attempts, r.w.readd)
          /\ last_call' = Call("move_files", c, r.ok)
    /\ UNCHANGED <<storageVars, pickupVars, dbVars, ingestVars, watcherVars, now, delayedVars, schedulerVars, taskVars>>

\* the immediate hook's last step: delayed_manager.add_to_delayed_queue(...)
AddToDelayedQueueCall(c) ==
    /\ Len(move_queue) < MaxQueue
    /\ move_queue' = AddToDelayedQueue(move_queue, c, SourceProduct, TargetProduct)
    /\ last_call' = Call("add_to_delayed_queue", c, TRUE)
    /\ UNCHANGED <<storageVars, pickupVars, dbVars, ingestVars, watcherVars, now, catalogVars, failed_components, schedulerVars, retryVars,
                   taskVars>>

(***************************************************************************)
(* Ingest controller (OnlineProcessManager); its slots run one at a time   *)
(* in the thread of the Qt event loop                                      *)
(***************************************************************************)
RawCsv(c) == GetPath(SourceProduct, "processed_csv", c)

\* OnlineProcessManager.start
OnlineStart ==
    /\ ~online_running
    /\ online_running' = TRUE
    /\ last_call' = Call("online_start", "", TRUE)
    /\ UNCHANGED <<storageVars, pickupVars, dbVars, now, catalogVars, delayedVars, schedulerVars, retryVars, taskVars,
                   processing_queue, current_tasks, task_map, delivered,
                   ingest_created, watcherVars>>

\* OnlineProcessManager.stop
OnlineStop ==
    /\ online_running
    /\ online_running' = FALSE
    /\ last_call' = Call("online_stop", "", TRUE)
    /\ UNCHANGED <<storageVars, pickupVars, dbVars, now, catalogVars, delayedVars, schedulerVars, retryVars, taskVars,
                   processing_queue, current_tasks, task_map, delivered,
                   ingest_created, watcherVars>>

\* OnlineProcessManager.enqueue_file, the slot of file_found, for the raw
\* file of component c
EnqueueFile(c) ==
    /\ online_running
    /\ Exists(fs, RawCsv(c))
    /\ Len(processing_queue) < MaxQueue
    /\ components' = IF c \in DOMAIN components
                     THEN [components EXCEPT ![c].csv_path = RawCsv(c)]
                     ELSE Put(components, c, ComponentInfo(RawCsv(c)))
    /\ processing_queue' = Append(processing_queue, c)
    /\ last_call' = Call("enqueue_file", c, TRUE)
    /\ UNCHANGED <<storageVars, pickupVars, dbVars, now, fs, delayedVars, schedulerVars, retryVars, taskVars,
                   online_running, current_tasks, task_map, delivered,
                   ingest_created, watcherVars>>

\* the test of _process_next on the counter of running tasks
\* (variant: the cap is tested with > instead of >=)
AtCapacityOffByOne(n) == n > MaxConcurrentTasks

AtCapacity(n) == n >= MaxConcurrentTasks

\* OnlineProcessManager._process_next, the slot of process_timer
ProcessNext ==
    /\ online_running
    /\ ~AtCapacity(current_tasks)
    /\ processing_queue # <<>>
    /\ processing_queue' = Tail(processing_queue)
    /\ IF Head(processing_queue) \notin DOMAIN components
       THEN /\ last_call' = Call("process_next", Head(processing_queue), FALSE)
            /\ UNCHANGED <<tasks, current_tasks, task_map, ingest_created, log_status>>
       ELSE /\ Len(tasks) < MaxIngestTasks
            /\ current_tasks' = current_tasks + 1
            /\ tasks' = CreateTask("basemap", Head(processing_queue), NoParams)
            /\ task_map' = task_map \cup {Len(tasks) + 1}
            /\ log_status' = Put(log_status, Len(tasks) + 1, "processing")
            /\ ingest_created' = ingest_created \cup {Len(tasks) + 1}
            /\ last_call' = Call("process_next", Head(processing_queue), TRUE)
    /\ UNCHANGED <<file_events, processing_logs, dropped_files>>
    /\ UNCHANGED <<storageVars, dbVars, now, catalogVars, delayedVars, schedulerVars, retryVars,
                   online_running, delivered, watcherVars, task_results>>

\* OnlineProcessManager._on_task_completed, the slot of task_completed,
\* run for the signal that task i emitted
\* (variant: the mapping is removed and the log closed, the counter of
\* running tasks is left as it is)
OnTaskCompletedKeepsCount(i) ==
    /\ i \in 1..Len(tasks)
    /\ tasks[i].emitted > 0
    /\ i \notin delivered
    /\ delivered' = delivered \cup {i}
    /\ IF i \notin task_map
       THEN UNCHANGED <<task_map, current_tasks, log_status>>
       ELSE /\ task_map' = task_map \ {i}
            /\ UNCHANGED current_tasks
            /\ log_status' = Put(log_status, i,
                                 IF tasks[i].success THEN "completed" ELSE "failed")
    /\ last_call' = Call("on_task_completed", tasks[i].component_id, i \in task_map)
    /\ UNCHANGED <<file_events, processing_logs, dropped_files>>
    /\ UNCHANGED <<storageVars, dbVars, now, catalogVars, delayedVars, schedulerVars, retryVars, taskVars,
                   online_running, processing_queue, ingest_created, watcherVars>>

OnTaskCompleted(i) ==
    /\ i \in 1..Len(tasks)
    /\ tasks[i].emitted > 0
    /\ i \notin delivered
    /\ delivered' = delivered \cup {i}
    /\ IF i \notin task_map
       THEN UNCHANGED <<task_map, current_tasks, log_status>>
       ELSE /\ task_map' = task_map \ {i}
            /\ current_tasks' = current_tasks - 1
            /\ log_status' = Put(log_status, i,
                                 IF tasks[i].success THEN "completed" ELSE "failed")
    /\ last_call' = Call("on_task_completed", tasks[i].component_id, i \in task_map)
    /\ UNCHANGED <<file_events, processing_logs, dropped_files>>
    /\ UNCHANGED <<storageVars, dbVars, now, catalogVars, delayedVars, schedulerVars, retryVars, taskVars,
                   online_running, processing_queue, ingest_created, watcherVars>>

\* DatabaseManager.remove_component
RemoveComponent(c) ==
    /\ c \in DOMAIN components
    /\ components' = Del(components, c)
    /\ last_call' = Call("remove_component", c, TRUE)
    /\ UNCHANGED <<storageVars, pickupVars, dbVars, now, fs, delayedVars, schedulerVars, retryVars, taskVars,
                   ingestVars, watcherVars>>

(***************************************************************************)
(* File watcher                                                            *)
(* A file name is the sequence of its tokens, a file id the sequence of    *)
(* tokens of the formatted string f"{file_path}_{st_size}_{st_mtime}".     *)
(***************************************************************************)
Words == {"DEV", "CMP1", "CMP2"}          \* tokens matching [A-Z0-9]+
Stamps == {"202401010000"}                \* tokens matching \d{12}

RawName1 == <<"DEV", "_", "CMP1", "_", "202401010000", ".csv">>
RawName2 == <<"DEV", "_", "CMP2", "_", "202401010000", ".csv">>
ProcessedName == <<"CMP1", ".csv">>
FileNames == {RawName1, RawName2, ProcessedName}
FileSizes == {5, 51}       \* st_size values the files take
FileMtimes == {1, 15}      \* st_mtime values the files take

\* the station directory a file lies in
DirOf(name) == IF name = RawName2 THEN "DIR2" ELSE "DIR1"

\* AOI_FILENAME_PATTERN.match(file_path.name)
IsAoiFilename(name) ==
    /\ Len(name) = 6
    /\ name[1] \in Words
    /\ name[2] = "_"
    /\ name[3] \in Words
    /\ name[4] = "_"
    /\ name[5] \in Stamps
    /\ name[6] = ".csv"

\* str(n) for a natural number, as its decimal digits
DigitChar(d) == <<"0", "1", "2", "3", "4", "5", "6", "7", "8", "9">>[d + 1]

RECURSIVE Digits(_)
Digits(n) ==
    IF n < 10 THEN <<DigitChar(n)>> ELSE Digits(n \div 10) \o <<DigitChar(n % 10)>>

\* hashlib.md5(...).hexdigest(): the digest stands for the string it was
\* computed from, two different strings have different digests
Md5(str) == <<"md5", str>>

\* FileWatcher._get_file_id
GetFileId(name, size, mtime) ==
    Md5(<<DirOf(name)>> \o name \o <<"_">> \o Digits(size) \o <<"_">> \o Digits(mtime))

\* FileWatcher._scan_directory, the body of the loop for one file;
\* st is [processed, found]
\* (variant: the file id is not added to processed_files)
ScanFileForgets(st, name) ==
    LET stat == raw_files[name]
        file_id == GetFileId(name, stat.size, stat.mtime)
    IN IF ~IsAoiFilename(name) THEN st
       ELSE IF file_id \in st.processed THEN st
       ELSE [st EXCEPT !.found[<<name, stat.size, stat.mtime>>] = @ + 1]

ScanFile(st, name) ==
    LET stat == raw_files[name]
        file_id == GetFileId(name, stat.size, stat.mtime)
    IN IF ~IsAoiFilename(name) THEN st
       ELSE IF file_id \in st.processed THEN st
       ELSE [st EXCEPT !.processed = @ \cup {file_id},
                       !.found[<<name, stat.size, stat.mtime>>] = @ + 1]

RECURSIVE ScanLoop(_, _)
ScanLoop(st, todo) ==
    IF todo = {} THEN st
    ELSE LET name == CHOOSE x \in todo : TRUE
         IN ScanLoop(ScanFile(st, name), todo \ {name})

\* FileWatcher._scan_all_products over the station directories dirs
ScanAllProducts(dirs) ==
    ScanLoop([processed |-> processed_files, found |-> found],
             {name \in DOMAIN raw_files : raw_files[name].dir \in dirs})

\* the file_found signals a scan emitted: one for every file version whose
\* count went up
Emitted(st) == {k \in DOMAIN found : st.found[k] > found[k]}

\* the run loop takes the branch of the light scan
LightScan ==
    /\ LET st == ScanAllProducts(known_dirs)
       IN /\ processed_files' = st.processed
          /\ found' = st.found
          /\ file_events' = file_events \cup Emitted(st)
    /\ last_call' = Call("scan_all_products", "", TRUE)
    /\ UNCHANGED <<processing_logs, dropped_files, log_status>>
    /\ UNCHANGED <<storageVars, dbVars, now, catalogVars, delayedVars, schedulerVars, retryVars, taskVars,
                   ingestVars, raw_files, known_dirs>>

\* FileWatcher._rescan_database: scan_database lists the station
\* directories found on disk, then every listed directory is scanned
RescanDatabase ==
    /\ known_dirs' = {raw_files[name].dir : name \in DOMAIN raw_files}
    /\ LET st == ScanAllProducts(known_dirs')
       IN /\ processed_files' = st.processed
          /\ found' = st.found
          /\ file_events' = file_events \cup Emitted(st)
    /\ last_call' = Call("rescan_database", "", TRUE)
    /\ UNCHANGED <<processing_logs, dropped_files, log_status>>
    /\ UNCHANGED <<storageVars, dbVars, now, catalogVars, delayedVars, schedulerVars, retryVars, taskVars,
                   ingestVars, raw_files>>

\* the inspection station writes or rewrites a file
EnvWriteFile(name, size, mtime) ==
    /\ name \in DOMAIN raw_files =>
           <<raw_files[name].size, raw_files[name].mtime>> # <<size, mtime>>
    /\ raw_files' = Put(raw_files, name,
                        [dir |-> DirOf(name), size |-> size, mtime |-> mtime])
    /\ last_call' = Call("env_write_file", name, TRUE)
    /\ UNCHANGED <<storageVars, pickupVars, dbVars, now, catalogVars, delayedVars, schedulerVars, retryVars, taskVars,
                   ingestVars, known_dirs, processed_files, found>>

(***************************************************************************)
(* Initial states                                                          *)
(***************************************************************************)

\* the catalog after the ingest controller has registered the raw files of cs
InitCatalog(cs) ==
    /\ fs = {RawCsv(c) : c \in cs} \cup {Parent(RawCsv(c)) : c \in cs}
              \cup {Grandparent(RawCsv(c)) : c \in cs}
    /\ components = [c \in cs |-> ComponentInfo(RawCsv(c))]

InitMigration ==
    /\ move_queue = <<>>
    /\ failed_components = <<>>
    /\ is_running = FALSE
    /\ timer_active = FALSE
    /\ fire_at = 0
    /\ retry_queue = <<>>
    /\ path_monitors = <<>>
    /\ attempts = [c \in Components |-> 0]
    /\ tasks = <<>>
    /\ task_results = <<>>
    /\ last_call = Call("init", "", TRUE)

InitIngest ==
    /\ online_running = FALSE
    /\ processing_queue = <<>>
    /\ current_tasks = 0
    /\ task_map = {}
    /\ delivered = {}
    /\ ingest_created = {}

InitDb ==
    /\ disk = {}
    /\ data_cache = EmptyCache
    /\ cache_file = <<>>
    /\ db_threads = <<>>

\* StorageMoveManager.__init__ with no report file to load
InitStorage ==
    /\ main_files = <<>>
    /\ archive_files = <<>>
    /\ archive_reports = <<>>
    /\ last_scheduled_run = NoTime
    /\ move_call = <<>>

InitWatcher ==
    /\ raw_files = <<>>
    /\ known_dirs = {}
    /\ processed_files = {}
    /\ found = [t \in FileNames \X FileSizes \X FileMtimes |-> 0]
    /\ file_events = {}
    /\ processing_logs = {}
    /\ dropped_files = {}
    /\ log_status = <<>>

(***************************************************************************)
(* Catalog calls made one at a time                                        *)
(***************************************************************************)
\* LotInfo.to_dict
LotToDict(lot) ==
    [lot_id |-> lot.lot_id, product_id |-> lot.product_id,
     original_lot_id |-> lot.original_lot_id]

\* ComponentInfo.to_dict
ComponentToDict(component) ==
    [component_id |-> component.component_id, lot_id |-> component.lot_id,
     station |-> Station, csv_path |-> component.csv_path,
     roi_path |-> component.roi_path, rev |-> component.rev]

\* cache_data of _save_cache: the values of the three dicts, without their
\* keys, and the lot_keys dict
CacheData(cache) ==
    [products |-> cache.products,
     lots |-> [i \in 1..Len(cache.lots) |-> LotToDict(cache.lots[i])],
     components |-> {ComponentToDict(cache.components[k]) :
                         k \in DOMAIN cache.components},
     lot_keys |-> cache.lot_keys]

\* _load_cache, the loop over cache_data["lots"]
RECURSIVE LoadLots(_, _)
LoadLots(cache, lots) ==
    IF lots = <<>> THEN cache
    ELSE LET lot_data == Head(lots)
             lot == LotInfo(lot_data.lot_id, lot_data.product_id,
                            lot_data.original_lot_id)
         IN LoadLots([cache EXCEPT
                        !.lots = LotsPut(@, lot),
                        !.lot_keys = Put(@, LotKey(lot.product_id,
                                                   lot_data.original_lot_id),
                                         lot.lot_id)],
                     Tail(lots))

\* the ComponentInfo _load_cache builds from one saved dict: roi_path is not
\* among the keyword arguments and keeps its default
LoadComponent(comp_data) ==
    [component_id |-> comp_data.component_id, lot_id |-> comp_data.lot_id,
     csv_path |-> comp_data.csv_path, roi_path |-> Null, rev |-> comp_data.rev]

\* _load_cache, the loop over cache_data["components"]: the key is built
\* again from the product of the lot data_cache["lots"] holds under the
\* component's lot_id, or without a product when it holds none
RECURSIVE LoadComponents(_, _)
LoadComponents(cache, comps) ==
    IF comps = <<>> THEN cache
    ELSE LET component == LoadComponent(Head(comps))
             lot == LotsGet(cache.lots, component.lot_id)
             key == IF lot # NoLot
                    THEN ComponentKey(lot.product_id, component.lot_id, Station,
                                      component.component_id)
                    ELSE component.lot_id \o Sep \o Station \o Sep
                             \o component.component_id
         IN LoadComponents([cache EXCEPT !.components = Put(@, key, component)],
                           Tail(comps))

\* DatabaseManager._load_cache of a file that parses; comps is the list
\* cache_data["components"]
LoadCache(cache_data, comps) ==
    [LoadComponents(LoadLots([EmptyCache EXCEPT !.products = cache_data.products],
                             cache_data.lots),
                    comps)
       EXCEPT !.lot_keys = cache_data.lot_keys]

\* the cells json.dump writes for a cache: an opening cell, the body and a
\* closing cell
Serialize(cache) ==
    <<[kind |-> "open", body |-> CacheData(EmptyCache)],
      [kind |-> "body", body |-> CacheData(cache)],
      [kind |-> "close", body |-> CacheData(EmptyCache)]>>

\* json.load accepts the file
Parseable(file) ==
    /\ Len(file) = 3
    /\ file[1].kind = "open"
    /\ file[2].kind = "body"
    /\ file[3].kind = "close"

\* the inspection station writes a csv file
EnvWriteCsv(site) ==
    /\ site \notin disk
    /\ Cardinality(disk) < MaxFiles
    /\ disk' = disk \cup {site}
    /\ last_call' = Call("env_write_csv", site, TRUE)
    /\ UNCHANGED <<data_cache, cache_file, db_threads>>
    /\ UNCHANGED <<now, catalogVars, delayedVars, schedulerVars, retryVars, taskVars,
                   ingestVars, watcherVars, pickupVars, storageVars>>

\* DatabaseManager.scan_database with its _save_cache
ScanDatabaseCall ==
    /\ \E porder \in Orders(ProductIds), lorder \in Orders(LotNames) :
          data_cache' = ScanDatabase(disk, porder, lorder)
    /\ cache_file' = Serialize(data_cache')
    /\ last_call' = Call("scan_database", "", TRUE)
    /\ UNCHANGED <<disk, db_threads>>
    /\ UNCHANGED <<now, catalogVars, delayedVars, schedulerVars, retryVars, taskVars,
                   ingestVars, watcherVars, pickupVars, storageVars>>

\* a mutating call's outcome r = [cache, ok] with the _save_cache of a
\* successful call
StoreOutcome(r) ==
    /\ data_cache' = r.cache
    /\ cache_file' = IF r.ok THEN Serialize(r.cache) ELSE cache_file

\* DatabaseManager.add_component for the csv file at site, as enqueue_file
\* calls it with the name of the lot directory
AddComponentCall(site) ==
    /\ site \in disk
    /\ LET r == AddComponent(data_cache, CatalogComponent(site[3], site[2], site))
       IN /\ StoreOutcome(r)
          /\ last_call' = Call("add_component", site, r.ok)
    /\ UNCHANGED <<disk, db_threads>>
    /\ UNCHANGED <<now, catalogVars, delayedVars, schedulerVars, retryVars, taskVars,
                   ingestVars, watcherVars, pickupVars, storageVars>>

\* DatabaseManager.update_component with a component read from the catalog
UpdateComponentCall(key) ==
    /\ key \in DOMAIN data_cache.components
    /\ data_cache.components[key].rev < MaxRev
    /\ LET r == UpdateComponent(data_cache,
                                [data_cache.components[key] EXCEPT !.rev = @ + 1])
       IN /\ StoreOutcome(r)
          /\ last_call' = Call("update_component", key, r.ok)
    /\ UNCHANGED <<disk, db_threads>>
    /\ UNCHANGED <<now, catalogVars, delayedVars, schedulerVars, retryVars, taskVars,
                   ingestVars, watcherVars, pickupVars, storageVars>>

\* DatabaseManager.remove_component(lot_id, station, component_id)
RemoveComponentCall(lot_id, component_id) ==
    /\ LET r == CatalogRemoveComponent(data_cache, lot_id, Station, component_id)
       IN /\ StoreOutcome(r)
          /\ last_call' = Call("remove_component", <<lot_id, component_id>>, r.ok)
    /\ UNCHANGED <<disk, db_threads>>
    /\ UNCHANGED <<now, catalogVars, delayedVars, schedulerVars, retryVars, taskVars,
                   ingestVars, watcherVars, pickupVars, storageVars>>

\* the lot ids a caller may hold: directory names and internal ids
LotIdsInUse == LotNames \cup {data_cache.lots[i].lot_id : i \in 1..Len(data_cache.lots)}

(***************************************************************************)
(* SpecDelayed: the delayed-move queue, the failure ledger that gates it   *)
(* and the daily timer that drains it into a batch task                    *)
(***************************************************************************)
InitDelayed ==
    /\ now \in {ScheduledTime - TickSeconds, ScheduledTime}
    /\ InitCatalog(Components)
    /\ InitMigration
    /\ InitIngest
    /\ InitWatcher
    /\ InitStorage
    /\ InitDb

NextDelayed ==
    \/ Tick(ScheduledTime + MaxShortTicks * TickSeconds)
    \/ StartScheduler
    \/ StopScheduler
    \/ ProcessDelayedMoves
    \/ \E c \in Components : AddToDelayedQueueCall(c)
    \/ \E c \in Components : RecordComponentFailure(c)

SpecDelayed == InitDelayed /\ [][NextDelayed]_vars

(***************************************************************************)
(* SpecSchedule: the daily timer from a Friday into the following week     *)
(***************************************************************************)
InitSchedule ==
    /\ now = 4 * DaySeconds + ScheduledTime - TickSeconds
    /\ InitCatalog(Components)
    /\ InitMigration
    /\ InitIngest
    /\ InitWatcher
    /\ InitStorage
    /\ InitDb

NextSchedule ==
    \/ AwaitFireTime((4 + MaxDays) * DaySeconds)
    \/ StartScheduler
    \/ StopScheduler
    \/ ProcessDelayedMoves
    \/ \E c \in Components : AddToDelayedQueueCall(c)

SpecSchedule == InitSchedule /\ [][NextSchedule]_vars

(***************************************************************************)
(* SpecMigration: one component through basemap, immediate move, delayed   *)
(* move, path monitor and retry queue                                      *)
(***************************************************************************)
InitMigrationOne ==
    /\ now = ScheduledTime - TickSeconds
    /\ InitCatalog({"CMP1"})
    /\ InitMigration
    /\ InitIngest
    /\ InitWatcher
    /\ InitStorage
    /\ InitDb

NextMigration ==
    \/ Tick(ScheduledTime + MaxShortTicks * TickSeconds)
    \/ StartScheduler
    \/ ProcessDelayedMoves
    \/ \E c \in DOMAIN components : GenerateBasemapCall(c)
    \/ \E c \in DOMAIN components : MoveFilesCall(c, DelayedFileTypes, {})
    \/ \E i \in 1..MaxTasks : TaskStart(i)
    \/ \E i \in 1..MaxTasks : TaskBody(i)
    \/ \E i \in 1..MaxTasks : TaskFinish(i)
    \/ \E i \in 1..MaxTasks : TaskEmit(i)
    \/ RetrySweep
    \/ PathSweep
    \/ \E c \in DOMAIN components : EnvCreateDir("org", c)

SpecMigration == InitMigrationOne /\ [][NextMigration]_vars

(***************************************************************************)
(* SpecRetry: move_files failures and the retry sweep over a retry chain   *)
(***************************************************************************)
InitRetry ==
    /\ now = 0
    /\ InitCatalog({"CMP1"})
    /\ InitMigration
    /\ InitIngest
    /\ InitWatcher
    /\ InitStorage
    /\ InitDb

NextRetry ==
    \/ AwaitRetryTime(MaxLongTicks * TickSeconds)
    \/ \E c \in DOMAIN components, io \in IoFailures :
           MoveFilesCall(c, DelayedFileTypes, io)
    \/ RetrySweep
    \/ PathSweep
    \/ \E c \in DOMAIN components : EnvCreateDir("org", c)
    \/ \E c \in DOMAIN components : EnvCreateDir("roi", c)

SpecRetry == InitRetry /\ [][NextRetry]_vars

(***************************************************************************)
(* SpecMove: move_files called with every list of file types               *)
(***************************************************************************)
AllFileTypes == <<"csv", "map", "org", "roi">>

\* the lists of file types a caller may pass, one for every subset
FileTypeLists ==
    {SelectSeq(AllFileTypes, LAMBDA t : t \in S) :
        S \in SUBSET {"csv", "map", "org", "roi"}}

InitMove ==
    /\ now = 0
    /\ InitCatalog({"CMP1"})
    /\ InitMigration
    /\ InitIngest
    /\ InitWatcher
    /\ InitStorage
    /\ InitDb

NextMove ==
    \/ \E c \in DOMAIN components : GenerateBasemapCall(c)
    \/ \E c \in DOMAIN components, types \in FileTypeLists :
           MoveFilesCall(c, types, {})
    \/ \E c \in DOMAIN components : EnvCreateDir("org", c)

SpecMove == InitMove /\ [][NextMove]_vars

(***************************************************************************)
(* SpecStage: move_files on org and roi directories at every stage of      *)
(* their creation                                                          *)
(***************************************************************************)
NextStage ==
    \/ \E c \in DOMAIN components : MoveFilesCall(c, DelayedFileTypes, {})
    \/ \E tree \in {"org", "roi"} : EnvCreateLotDir(tree)
    \/ \E c \in DOMAIN components, tree \in {"org", "roi"} : EnvCreateDir(tree, c)

SpecStage == InitDelayed /\ [][NextStage]_vars

(***************************************************************************)
(* SpecTask: the task engine; FairSpecTask lets every started thread run   *)
(***************************************************************************)
InitTask ==
    /\ now = 0
    /\ InitCatalog({"CMP1"})
    /\ InitMigration
    /\ InitIngest
    /\ InitWatcher
    /\ InitStorage
    /\ InitDb

NextTask ==
    \/ \E c \in DOMAIN components : CreateBasemapTask(c)
    \/ \E i \in 1..MaxTasks : TaskStart(i)
    \/ \E i \in 1..MaxTasks : TaskBody(i)
    \/ \E i \in 1..MaxTasks : TaskFinish(i)
    \/ \E i \in 1..MaxTasks : TaskEmit(i)
    \/ \E i \in 1..MaxTasks : CancelTask(i)

SpecTask == InitTask /\ [][NextTask]_vars

\* the operating system schedules every task thread until it returns
FairSpecTask ==
    /\ SpecTask
    /\ \A i \in 1..MaxTasks :
           WF_vars(TaskStart(i) \/ TaskBody(i) \/ TaskFinish(i) \/ TaskEmit(i))

(***************************************************************************)
(* SpecTaskApi: the task engine with its status, cancel and reap calls     *)
(* while the clock runs                                                    *)
(***************************************************************************)
MaxAgeHours == {0, 1}

NextTaskApi ==
    \/ \E c \in DOMAIN components : CreateBasemapTask(c)
    \/ \E i \in 1..MaxTasks : TaskStart(i)
    \/ \E i \in 1..MaxTasks : TaskBody(i)
    \/ \E i \in 1..MaxTasks : TaskFinish(i)
    \/ \E i \in 1..MaxTasks : TaskEmit(i)
    \/ \E i \in 1..MaxTasks : CancelTask(i)
    \/ \E i \in 1..MaxTasks : GetTaskStatusCall(i)
    \/ \E h \in MaxAgeHours : CleanCompletedTasks(h)
    \/ HourPasses(MaxReapHours * HourSeconds)

SpecTaskApi == InitTask /\ [][NextTaskApi]_vars

(***************************************************************************)
(* SpecCatalog: scans and mutations of the catalog, one call at a time,    *)
(* over products that hold lots of the same name                           *)
(***************************************************************************)
NextCatalog ==
    \/ \E site \in Sites : EnvWriteCsv(site)
    \/ ScanDatabaseCall
    \/ \E site \in Sites : AddComponentCall(site)
    \/ \E key \in DOMAIN data_cache.components : UpdateComponentCall(key)
    \/ \E lot_id \in LotIdsInUse, component_id \in ComponentIds :
           RemoveComponentCall(lot_id, component_id)

SpecCatalog == InitTask /\ [][NextCatalog]_vars

(***************************************************************************)
(* The catalog under threads.  DatabaseManager has no lock: the watcher    *)
(* thread runs scan_database while a worker thread reads and changes the   *)
(* catalog, and each thread's _save_cache opens the cache file for itself. *)
(***************************************************************************)
Threads == {"worker", "watcher"}

\* a thread outside every DatabaseManager call
Idle == [pc |-> "idle", op |-> "", arg |-> "", sites |-> <<>>, done |-> 0,
         before |-> EmptyCache, doc |-> <<>>, off |-> 0]

ThreadState(t) == IF t \in DOMAIN db_threads THEN db_threads[t] ELSE Idle

\* what a read finds where a write beyond the end of a truncated file left
\* a gap
Hole == [kind |-> "hole", body |-> EmptyCache]

\* a write of one part of a document at position pos of the file
WriteAt(file, pos, cell) ==
    [i \in 1..(IF pos > Len(file) THEN pos ELSE Len(file)) |->
        IF i = pos THEN cell ELSE IF i <= Len(file) THEN file[i] ELSE Hole]

\* the csv files on disk when the program starts
StartSites == {<<<<"A">>, <<"X">>, <<"C1">>>>, <<<<"B">>, <<"B", "_", "X">>, <<"C1">>>>}

\* the catalog after construction: the cache file holds the scan of the disk
InitDbThreads ==
    /\ disk = StartSites
    /\ data_cache = ScanDatabase(StartSites, CHOOSE o \in Orders(ProductIds) : TRUE,
                                 CHOOSE o \in Orders(LotNames) : TRUE)
    /\ cache_file = Serialize(data_cache)
    /\ db_threads = [t \in Threads |-> Idle]

\* the components a worker may hold: those of the catalog, and those it read
\* before a running scan emptied the catalog
HeldComponents ==
    {data_cache.components[k] : k \in DOMAIN data_cache.components}
        \cup UNION {{ThreadState(t).before.components[k] :
                         k \in DOMAIN ThreadState(t).before.components} : t \in Threads}

\* scan_database up to the first directory: the catalog is replaced by an
\* empty one
ThreadScanBegin(t) ==
    /\ ThreadState(t).pc = "idle"
    /\ \E porder \in Orders(ProductIds), lorder \in Orders(LotNames) :
          db_threads' = Put(db_threads, t,
              [Idle EXCEPT !.pc = "scan", !.op = "scan_database",
                           !.before = data_cache,
                           !.sites = ListSites(disk, porder, lorder,
                                         CHOOSE o \in Orders(ComponentIds) : TRUE, 1)])
    /\ data_cache' = EmptyCache
    /\ last_call' = Call("enter", <<t, "scan_database">>, TRUE)
    /\ UNCHANGED <<disk, cache_file>>
    /\ UNCHANGED <<now, catalogVars, delayedVars, schedulerVars, retryVars, taskVars,
                   ingestVars, watcherVars, pickupVars, storageVars>>

\* scan_database reads one more csv file into the catalog
ThreadScanStep(t) ==
    /\ ThreadState(t).pc = "scan"
    /\ ThreadState(t).done < Len(ThreadState(t).sites)
    /\ data_cache' = ScanSite(data_cache, ThreadState(t).sites[ThreadState(t).done + 1])
    /\ db_threads' = Put(db_threads, t, [ThreadState(t) EXCEPT !.done = @ + 1])
    /\ last_call' = Call("scan_step", <<t, ThreadState(t).done + 1>>, TRUE)
    /\ UNCHANGED <<disk, cache_file>>
    /\ UNCHANGED <<now, catalogVars, delayedVars, schedulerVars, retryVars, taskVars,
                   ingestVars, watcherVars, pickupVars, storageVars>>

\* the in-memory part of a mutating call whose outcome is r = [cache, ok]:
\* a failed call returns, a successful one goes on to _save_cache
ThreadMutate(t, op, arg, r) ==
    /\ ThreadState(t).pc = "idle"
    /\ data_cache' = r.cache
    /\ IF r.ok
       THEN /\ db_threads' = Put(db_threads, t,
                                 [Idle EXCEPT !.pc = "save", !.op = op, !.arg = arg])
            /\ last_call' = Call("enter", <<t, op>>, TRUE)
       ELSE /\ db_threads' = Put(db_threads, t, Idle)
            /\ last_call' = Call(op, arg, FALSE)
    /\ UNCHANGED <<disk, cache_file>>
    /\ UNCHANGED <<now, catalogVars, delayedVars, schedulerVars, retryVars, taskVars,
                   ingestVars, watcherVars, pickupVars, storageVars>>

ThreadAddComponent(t, site) ==
    /\ site \in disk
    /\ ThreadMutate(t, "add_component", site,
                    AddComponent(data_cache, CatalogComponent(site[3], site[2], site)))

ThreadUpdateComponent(t, component) ==
    /\ component.rev < MaxRev
    /\ ThreadMutate(t, "update_component", component.csv_path,
                    UpdateComponent(data_cache, [component EXCEPT !.rev = @ + 1]))

ThreadRemoveComponent(t, lot_id, component_id) ==
    ThreadMutate(t, "remove_component", <<lot_id, component_id>>,
                 CatalogRemoveComponent(data_cache, lot_id, Station, component_id))

\* DatabaseManager.get_lot and get_component called by thread t
ThreadGetLot(t, lot_id) ==
    /\ ThreadState(t).pc = "idle"
    /\ last_call' = Call("get_lot", lot_id, GetLot(data_cache, lot_id) # NoLot)
    /\ UNCHANGED dbVars
    /\ UNCHANGED <<now, catalogVars, delayedVars, schedulerVars, retryVars, taskVars,
                   ingestVars, watcherVars, pickupVars, storageVars>>

ThreadGetComponent(t, lot_id, component_id) ==
    /\ ThreadState(t).pc = "idle"
    /\ last_call' = Call("get_component", <<lot_id, component_id>>,
                         GetComponent(data_cache, lot_id, Station, component_id)
                             # NoComponent)
    /\ UNCHANGED dbVars
    /\ UNCHANGED <<now, catalogVars, delayedVars, schedulerVars, retryVars, taskVars,
                   ingestVars, watcherVars, pickupVars, storageVars>>

\* _save_cache builds cache_data and opens the cache file with mode 'w',
\* which truncates it
ThreadSaveOpen(t) ==
    /\ \/ ThreadState(t).pc = "save"
       \/ /\ ThreadState(t).pc = "scan"
          /\ ThreadState(t).done = Len(ThreadState(t).sites)
    /\ db_threads' = Put(db_threads, t,
                         [ThreadState(t) EXCEPT !.pc = "write", !.off = 0,
                                                !.before = EmptyCache,
                                                !.sites = <<>>, !.done = 0,
                                                !.doc = Serialize(data_cache)])
    /\ cache_file' = <<>>
    /\ last_call' = Call("open", t, TRUE)
    /\ UNCHANGED <<disk, data_cache>>
    /\ UNCHANGED <<now, catalogVars, delayedVars, schedulerVars, retryVars, taskVars,
                   ingestVars, watcherVars, pickupVars, storageVars>>

\* json.dump writes the next part of the document at the position of the
\* thread's own file object
ThreadSaveWrite(t) ==
    /\ ThreadState(t).pc = "write"
    /\ ThreadState(t).off < Len(ThreadState(t).doc)
    /\ cache_file' = WriteAt(cache_file, ThreadState(t).off + 1,
                             ThreadState(t).doc[ThreadState(t).off + 1])
    /\ db_threads' = Put(db_threads, t, [ThreadState(t) EXCEPT !.off = @ + 1])
    /\ last_call' = Call("write", <<t, ThreadState(t).off + 1>>, TRUE)
    /\ UNCHANGED <<disk, data_cache>>
    /\ UNCHANGED <<now, catalogVars, delayedVars, schedulerVars, retryVars, taskVars,
                   ingestVars, watcherVars, pickupVars, storageVars>>

\* the file is closed, _save_cache returns and the call returns success
ThreadReturn(t) ==
    /\ ThreadState(t).pc = "write"
    /\ ThreadState(t).off = Len(ThreadState(t).doc)
    /\ db_threads' = Put(db_threads, t, Idle)
    /\ last_call' = Call(ThreadState(t).op, ThreadState(t).arg, TRUE)
    /\ UNCHANGED <<disk, data_cache, cache_file>>
    /\ UNCHANGED <<now, catalogVars, delayedVars, schedulerVars, retryVars, taskVars,
                   ingestVars, watcherVars, pickupVars, storageVars>>

InitThreads ==
    /\ now = 0
    /\ InitCatalog({"CMP1"})
    /\ InitMigration
    /\ InitIngest
    /\ InitWatcher
    /\ InitStorage
    /\ InitDbThreads

\* FileWatcher._rescan_database on the watcher thread, the pipeline's calls
\* on a worker thread
NextThreads ==
    \/ ThreadScanBegin("watcher")
    \/ ThreadScanStep("watcher")
    \/ \E site \in Sites : ThreadAddComponent("worker", site)
    \/ \E component \in HeldComponents : ThreadUpdateComponent("worker", component)
    \/ \E lot_id \in LotIdsInUse, component_id \in ComponentIds :
           ThreadRemoveComponent("worker", lot_id, component_id)
    \/ \E lot_id \in LotIdsInUse : ThreadGetLot("worker", lot_id)
    \/ \E lot_id \in LotIdsInUse, component_id \in ComponentIds :
           ThreadGetComponent("worker", lot_id, component_id)
    \/ \E t \in Threads : ThreadSaveOpen(t)
    \/ \E t \in Threads : ThreadSaveWrite(t)
    \/ \E t \in Threads : ThreadReturn(t)

SpecCatalogThreads == InitThreads /\ [][NextThreads]_vars

(***************************************************************************)
(* SpecIngest: the ingest controller feeding the task engine               *)
(***************************************************************************)
InitIngestSpec ==
    /\ now = 0
    /\ fs = {RawCsv("CMP1"), Parent(RawCsv("CMP1")), Grandparent(RawCsv("CMP1"))}
    /\ components = <<>>
    /\ InitMigration
    /\ InitIngest
    /\ InitWatcher
    /\ InitStorage
    /\ InitDb

NextIngest ==
    \/ OnlineStart
    \/ OnlineStop
    \/ \E c \in Components : EnqueueFile(c)
    \/ ProcessNext
    \/ \E i \in 1..MaxIngestTasks : OnTaskCompleted(i)
    \/ \E c \in Components : RemoveComponent(c)
    \/ \E i \in 1..MaxIngestTasks : TaskStart(i)
    \/ \E i \in 1..MaxIngestTasks : TaskBody(i)
    \/ \E i \in 1..MaxIngestTasks : TaskFinish(i)
    \/ \E i \in 1..MaxIngestTasks : TaskEmit(i)

SpecIngest == InitIngestSpec /\ [][NextIngest]_vars

(***************************************************************************)
(* SpecWatcher: the file watcher over files that appear and change         *)
(***************************************************************************)
InitWatcherSpec ==
    /\ now = 0
    /\ InitCatalog({"CMP1"})
    /\ InitMigration
    /\ InitIngest
    /\ InitWatcher
    /\ InitStorage
    /\ InitDb

NextWatcher ==
    \/ LightScan
    \/ RescanDatabase
    \/ \E name \in FileNames, size \in FileSizes, mtime \in FileMtimes :
           EnvWriteFile(name, size, mtime)

SpecWatcher == InitWatcherSpec /\ [][NextWatcher]_vars

(***************************************************************************)
(* Properties of the migration engine                                      *)
(***************************************************************************)
\* C1: in every reachable state no component_id has both an entry in the
\* delayed-move queue and an entry in the retry queue.
C1_NoDelayedAndRetryEntry ==
    \A i \in 1..Len(move_queue) :
        move_queue[i].component_id \notin DOMAIN retry_queue

\* C2: while every move_files attempt of the retry sweep fails, the sweep
\* makes at most max_retries (5) attempts for a component, and once it has
\* made the 5th failed attempt the entry is no longer in the retry queue.
C2_ExactlyFiveAttempts ==
    \A c \in DOMAIN components :
        /\ attempts[c] <= MaxRetries
        /\ attempts[c] = MaxRetries => c \notin DOMAIN retry_queue

\* C3: every retry sweep removes each entry whose retry_count had reached
\* max_retries when the sweep started.
C3_NextSweepRemovesExhausted ==
    [][last_call'.op = "process_retry_queue" =>
          \A c \in DOMAIN retry_queue :
              retry_queue[c].retry_count >= retry_queue[c].max_retries =>
                  c \notin DOMAIN retry_queue']_vars

\* C4: a timer fire that finds n >= 1 entries queued creates exactly one
\* batch_move_files task whose component list is those n entries in enqueue
\* order, leaves the queue empty, and arms the timer for the next occurrence
\* of the configured time.
C4_FireDrainsQueueIntoOneBatch ==
    [][(last_call'.op = "process_delayed_moves" /\ move_queue # <<>>) =>
          /\ Len(tasks') = Len(tasks) + 1
          /\ SubSeq(tasks', 1, Len(tasks)) = tasks
          /\ tasks'[Len(tasks')].task_type = "batch_move_files"
          /\ tasks'[Len(tasks')].params.components_data =
                 [i \in 1..Len(move_queue) |->
                     <<move_queue[i].component_id, move_queue[i].source_product>>]
          /\ move_queue' = <<>>
          /\ timer_active'
          /\ fire_at' > now
          /\ fire_at' - now <= DaySeconds
          /\ fire_at' % DaySeconds = ScheduledTime]_vars

\* C4 case: the timer has just fired on a queue of two different components
C4_Witness ==
    /\ last_call.op = "process_delayed_moves"
    /\ tasks # <<>>
    /\ tasks[Len(tasks)].pc = "start"
    /\ Len(tasks[Len(tasks)].params.components_data) = 2
    /\ tasks[Len(tasks)].params.components_data[1][1] #
           tasks[Len(tasks)].params.components_data[2][1]
    /\ move_queue = <<>>
    /\ timer_active

\* C5: after every fire of the delayed-move timer the timer is armed again,
\* also when the fire finds the queue empty.
C5_TimerArmedAfterEveryFire ==
    [][last_call'.op = "process_delayed_moves" => timer_active']_vars

\* C9: after move_files returns ok=true the component's product is the
\* target product and each of its seven path fields is null or lies inside
\* the target product's subtree, whatever list of file types was passed.
C9_MovedComponentLiesInTarget ==
    (last_call.op = "move_files" /\ last_call.ok) =>
        /\ components[last_call.arg].product_id = TargetProduct
        /\ \A f \in {"csv_path", "original_csv_path", "org_path", "roi_path",
                      "basemap_path", "lossmap_path", "fpy_path"} :
               \/ components[last_call.arg][f] = Null
               \/ components[last_call.arg][f][1] = TargetProduct

\* C10: a generate_basemap call that returns ok=false leaves the component's
\* csv_path, original_csv_path and basemap_path as they were before the call.
C10_FailedBasemapKeepsPaths ==
    [][(last_call'.op = "generate_basemap" /\ ~last_call'.ok) =>
          /\ components'[last_call'.arg].csv_path =
                 components[last_call'.arg].csv_path
          /\ components'[last_call'.arg].original_csv_path =
                 components[last_call'.arg].original_csv_path
          /\ components'[last_call'.arg].basemap_path =
                 components[last_call'.arg].basemap_path]_vars

(***************************************************************************)
(* Properties of the task engine                                           *)
(***************************************************************************)
\* C6: for every task created by create_task the task_completed signal is
\* never emitted twice, the task and its emission are never taken back, and
\* again and again every task created so far has emitted it exactly once;
\* so each task emits once some time after its creation, also a task that
\* was cancelled while running.
C6_TaskCompletedExactlyOnce ==
    /\ [](\A i \in 1..Len(tasks) : tasks[i].emitted <= 1)
    /\ [][/\ Len(tasks') >= Len(tasks)
          /\ \A i \in 1..Len(tasks) : tasks'[i].emitted >= tasks[i].emitted]_vars
    /\ []<>(\A i \in 1..Len(tasks) : tasks[i].emitted = 1)

\* C6 case: a task cancelled while its body ran has emitted task_completed
C6_Witness ==
    \E i \in 1..Len(tasks) :
        /\ tasks[i].cancelled
        /\ tasks[i].pc = "done"
        /\ tasks[i].emitted = 1

(***************************************************************************)
(* Properties of the ingest controller and the file watcher                *)
(***************************************************************************)
\* C7: current_tasks always lies between 0 and max_concurrent_tasks, and the
\* basemap tasks that _process_next created and that have not yet emitted
\* task_completed never number more than max_concurrent_tasks.
C7_ConcurrencyCap ==
    /\ 0 <= current_tasks
    /\ current_tasks <= MaxConcurrentTasks
    /\ Cardinality({i \in ingest_created : tasks[i].emitted = 0})
           <= MaxConcurrentTasks

\* C7 case: the cap is reached with two uncompleted tasks and a file waits
C7_Witness ==
    /\ current_tasks = MaxConcurrentTasks
    /\ Cardinality({i \in ingest_created : tasks[i].emitted = 0})
           = MaxConcurrentTasks
    /\ processing_queue # <<>>

\* C8: file_found is emitted at most once for each (path, size, mtime)
\* triple, over any sequence of light scans and rescans.
C8_FileFoundOncePerTriple ==
    \A t \in DOMAIN found : found[t] <= 1

\* C8 case: a file was emitted, then rewritten with another size, emitted
\* again as a new triple, and scanned once more
C8_Witness ==
    /\ last_call.op = "scan_all_products"
    /\ found[<<RawName1, 5, 1>>] = 1
    /\ found[<<RawName1, 51, 1>>] = 1
    /\ GetFileId(RawName1, 5, 1) \in processed_files
    /\ GetFileId(RawName1, 51, 1) \in processed_files

\* C15: no get_task_status or cancel_task call issued after create_task has
\* returned observes the task in status pending.
C15_NoPendingAfterCreate ==
    /\ (last_call.op = "get_task_status" /\ last_call.arg[1] \in 1..Len(tasks))
           => last_call.arg[2] # "pending"
    /\ (last_call.op = "cancel_task" /\ last_call.arg \in 1..Len(tasks))
           => tasks[last_call.arg].status # "pending"

\* C16: cancel_task on a running task sets its status to failed with the
\* cancelled message, records (ok=false, cancelled) in task_results and
\* returns true; on an unknown task or a task that is not running it
\* returns false and leaves the task table and task_results unchanged.
C16_CancelTaskEffectAndFrame ==
    [][last_call'.op = "cancel_task" =>
          LET i == last_call'.arg
          IN IF i \in 1..Len(tasks) /\ tasks[i].status = "running"
             THEN /\ last_call'.ok
                  /\ tasks'[i].status = "failed"
                  /\ tasks'[i].message = "cancelled"
                  /\ i \in DOMAIN task_results'
                  /\ task_results'[i].success = FALSE
                  /\ task_results'[i].message = "cancelled"
                  /\ task_results'[i].task.status = "failed"
                  /\ \A j \in 1..Len(tasks) : j # i => tasks'[j] = tasks[j]
                  /\ \A j \in DOMAIN task_results :
                         j # i => task_results'[j] = task_results[j]
             ELSE /\ ~last_call'.ok
                  /\ tasks' = tasks
                  /\ task_results' = task_results]_vars

\* C16 case: one task was cancelled while running and a later cancel_task on
\* a task that had already completed returned false
C16_Witness ==
    /\ last_call = Call("cancel_task", 2, FALSE)
    /\ Len(tasks) = 2
    /\ tasks[2].status = "completed"
    /\ tasks[1].cancelled
    /\ 1 \in DOMAIN task_results
    /\ task_results[1].message = "cancelled"

\* C17: clean_completed_tasks(max_age_hours) removes from task_results every
\* task that completed or failed more than max_age_hours ago, keeps every
\* other entry, and returns the number of entries it removed.
C17_ReapRemovesOldResults ==
    [][last_call'.op = "clean_completed_tasks" =>
          LET old == {i \in DOMAIN task_results :
                         /\ task_results[i].task.status \in {"completed", "failed"}
                         /\ now - task_results[i].task.completed_at
                                > last_call'.arg[1] * HourSeconds}
          IN /\ DOMAIN task_results' = DOMAIN task_results \ old
             /\ \A i \in DOMAIN task_results' : task_results'[i] = task_results[i]
             /\ last_call'.arg[2] = Cardinality(old)]_vars

\* C18: a retry entry is stamped with retry_time = now + 300 s when it is
\* added; a sweep attempts an entry only when its retry_time has come; and
\* after the k-th failed attempt (k = 1..5) the entry is scheduled
\* min(300 * 2^k, 3600) seconds later.
C18_RetryBackoffSchedule ==
    [][/\ \A c \in DOMAIN retry_queue' \ DOMAIN retry_queue :
              retry_queue'[c].retry_time = now' + RetryDelay
       /\ last_call'.op = "process_retry_queue" =>
              \A c \in DOMAIN components :
                  attempts'[c] # attempts[c] =>
                      /\ c \in DOMAIN retry_queue
                      /\ now >= retry_queue[c].retry_time
                      /\ (attempts'[c] = attempts[c] + 1 /\ attempts'[c] <= MaxRetries) =>
                             /\ c \in DOMAIN retry_queue'
                             /\ retry_queue'[c].retry_time - now <= MaxBackoff
                             /\ retry_queue'[c].retry_time =
                                    now + Min(RetryDelay * (2 ^ attempts'[c]), MaxBackoff)]_vars

\* C19: the delayed-move timer fires, and creates a batch_move_files task,
\* only on the days of the week listed in auto_move.delayed.schedule.days.
C19_FiresOnScheduledDaysOnly ==
    [][last_call'.op = "process_delayed_moves" => Weekday(now) \in ScheduledDays]_vars

\* the stage of a component's source directory as C20 words it
C20_Stage(tree, c) ==
    IF Exists(fs, GetPath(SourceProduct, tree, c)) THEN "complete"
    ELSE IF Exists(fs, GetPath(SourceProduct, tree, StationDir)) THEN "partial"
    ELSE IF Exists(fs, GetPath(SourceProduct, tree, LotDir)) THEN "base"
    ELSE "absent"

\* C20: move_files with file types org and roi moves a source directory
\* exactly when it exists (complete), puts the component under the path
\* monitor when a directory is partial or base, and adds it to the retry
\* queue exactly when a directory is absent.
C20_StageDecidesMoveMonitorRetry ==
    [][last_call'.op = "move_files" =>
          LET c == last_call'.arg
              stages == {C20_Stage(tree, c) : tree \in {"org", "roi"}}
          IN /\ \A tree \in {"org", "roi"} :
                    Exists(fs', GetPath(TargetProduct, tree, c)) <=>
                        \/ Exists(fs, GetPath(TargetProduct, tree, c))
                        \/ C20_Stage(tree, c) = "complete"
             /\ (stages \cap {"partial", "base"} # {}) => c \in DOMAIN path_monitors'
             /\ (c \in DOMAIN path_monitors' /\ c \notin DOMAIN path_monitors)
                    => stages \cap {"partial", "base"} # {}
             /\ ("absent" \in stages) => c \in DOMAIN retry_queue'
             /\ (c \in DOMAIN retry_queue' /\ c \notin DOMAIN retry_queue)
                    => "absent" \in stages]_vars

(***************************************************************************)
(* Properties of the catalog                                               *)
(***************************************************************************)
\* C11: for every component of the catalog, get_component returns that
\* component both for the internal id of its lot and for the lot's
\* original_lot_id, also when another product holds a lot of the same
\* original_lot_id.
C11_SameComponentByEitherLotId ==
    \A key \in DOMAIN data_cache.components :
        LET component == data_cache.components[key]
            lot == LotsGet(data_cache.lots, component.lot_id)
        IN (lot # NoLot /\ key = ComponentKey(lot.product_id, lot.lot_id, Station,
                                              component.component_id)) =>
               /\ GetComponent(data_cache, lot.lot_id, Station,
                               component.component_id) = component
               /\ GetComponent(data_cache, lot.original_lot_id, Station,
                               component.component_id) = component

\* the lot directory of a csv file resolves: lot_keys maps it to an internal
\* id and get_lot on that id returns the lot of that product and that name
C12_Resolves(site) ==
    /\ LotKey(site[1], site[2]) \in DOMAIN data_cache.lot_keys
    /\ LET lot == GetLot(data_cache, data_cache.lot_keys[LotKey(site[1], site[2])])
       IN /\ lot.product_id = site[1]
          /\ lot.original_lot_id = site[2]

\* the csv files whose lot directory has the same name as that of site and
\* lies under another product
C12_Namesakes(site, files) ==
    {s \in files : s[2] = site[2] /\ s[1] # site[1]}

\* C12: after scan_database, and after a successful add_component, any two
\* lots of the same original_lot_id under distinct products have different
\* internal lot ids and get_lot on each id returns a lot of the product the
\* lot was found under.
C12_NamesakeLotsResolve ==
    /\ last_call.op = "scan_database" =>
           \A s1 \in disk : \A s2 \in C12_Namesakes(s1, disk) :
               /\ C12_Resolves(s1)
               /\ C12_Resolves(s2)
               /\ data_cache.lot_keys[LotKey(s1[1], s1[2])]
                      # data_cache.lot_keys[LotKey(s2[1], s2[2])]
    /\ (last_call.op = "add_component" /\ last_call.ok) =>
           \A s2 \in C12_Namesakes(last_call.arg,
                                   {data_cache.components[k].csv_path :
                                        k \in DOMAIN data_cache.components}) :
               /\ C12_Resolves(last_call.arg)
               /\ C12_Resolves(s2)
               /\ data_cache.lot_keys[LotKey(last_call.arg[1], last_call.arg[2])]
                      # data_cache.lot_keys[LotKey(s2[1], s2[2])]

(***************************************************************************)
(* Properties of the catalog under threads                                 *)
(***************************************************************************)
\* C13: with add_component, update_component, remove_component and
\* scan_database running on several threads, two writes of the cache file
\* never overlap, and at the moment one of these calls returns success the
\* cache file is a complete document that json.load accepts.
C13_CacheFileCompleteOnReturn ==
    /\ [](\A t1 \in Threads : \A t2 \in Threads \ {t1} :
              ~(ThreadState(t1).pc = "write" /\ ThreadState(t2).pc = "write"))
    /\ [][\A t \in Threads :
              (ThreadState(t).pc = "write" /\ db_threads'[t].pc = "idle")
                  => Parseable(cache_file')]_vars

\* the scan of the watcher thread is between emptying the catalog and the
\* end of the rebuild
C14_Rebuilding == ThreadState("watcher").pc = "scan"

\* the catalog the running scan produces when nothing interferes
C14_Rebuilt == ScanSites(EmptyCache, ThreadState("watcher").sites)

\* the csv file has a component in the catalog
C14_Listed(cache, site) ==
    \E k \in DOMAIN cache.components : cache.components[k].csv_path = site

\* C14: a get_lot, get_component or update_component of a worker thread
\* while scan_database rebuilds the catalog on the watcher thread never sees
\* an emptied or partly rebuilt catalog: a lot or component that is in the
\* catalog before the scan and after it is not reported missing, and the
\* update of such a component is not refused.
C14_CallsDuringScanSeeWholeCatalog ==
    [][C14_Rebuilding =>
         LET before == ThreadState("watcher").before
         IN /\ (/\ last_call'.op = "get_lot"
                /\ GetLot(before, last_call'.arg) # NoLot
                /\ GetLot(C14_Rebuilt, last_call'.arg) # NoLot)
                   => last_call'.ok
            /\ (/\ last_call'.op = "get_component"
                /\ GetComponent(before, last_call'.arg[1], Station,
                                last_call'.arg[2]) # NoComponent
                /\ GetComponent(C14_Rebuilt, last_call'.arg[1], Station,
                                last_call'.arg[2]) # NoComponent)
                   => last_call'.ok
            /\ (/\ last_call'.op = "update_component"
                /\ C14_Listed(before, last_call'.arg)
                /\ C14_Listed(C14_Rebuilt, last_call'.arg))
                   => last_call'.ok]_vars

(***************************************************************************)
(* Properties of the delayed batch                                         *)
(***************************************************************************)
\* the delayed file types of component c lie in the target product and no
\* longer in the source product src
C21_Moved(fsx, c, src) ==
    \A i \in 1..Len(DelayedFileTypes) :
        /\ Exists(fsx, GetPath(TargetProduct, DelayedFileTypes[i], c))
        /\ ~Exists(fsx, GetPath(src, DelayedFileTypes[i], c))

\* C21: every entry of the delayed-move queue that a timer fire drained
\* into a batch ends, when the batch has run, with its files moved to the
\* target product or with an entry for its component in the retry queue; no
\* drained entry is left without a move and without a retry entry.
C21_DrainedEntryMovedOrRetried ==
    [][\A i \in 1..Len(tasks) :
          (/\ tasks[i].task_type = "batch_move_files"
           /\ tasks[i].pc = "body"
           /\ tasks'[i].pc = "finish")
              => \A k \in 1..Len(tasks[i].params.components_data) :
                     LET entry == tasks[i].params.components_data[k]
                     IN \/ C21_Moved(fs', entry[1], entry[2])
                        \/ entry[1] \in DOMAIN retry_queue']_vars

\* C22: batch_move_files calls move_files once for every component of its
\* list, whatever the earlier components did, and the success count plus
\* the failure count of its report is the number of listed components.
C22_BatchCallsMoveFilesPerComponent ==
    [][\A i \in 1..Len(tasks) :
          (/\ tasks[i].task_type = "batch_move_files"
           /\ tasks[i].pc = "body"
           /\ tasks'[i].pc = "finish")
              => \E io \in IoFailures :
                     LET p == tasks[i].params
                         r == BatchMoveFiles(World, p.components_data,
                                             p.target_product, p.file_types, io)
                     IN /\ fs' = r.w.fs
                        /\ retry_queue' = r.w.rq
                        /\ path_monitors' = r.w.pm
                        /\ r.calls = Len(p.components_data)
                        /\ r.success_count + r.fail_count
                               = Len(p.components_data)]_vars

(***************************************************************************)
(* SpecPickup: the file watcher's thread and the slot of file_found.  The  *)
(* signal is emitted in the watcher thread and handled later in the thread *)
(* of the Qt event loop, where get_lot reads the catalog the watcher's     *)
(* scan_database is rebuilding.  A station directory in known_dirs stands  *)
(* for its lot in the catalog.                                             *)
(***************************************************************************)
\* extract_component_from_filename for a name of the AOI pattern
ExtractComponent(name) == name[3]

\* _rescan_database up to the first directory of scan_database: the catalog
\* is empty
RescanBegin ==
    /\ online_running
    /\ ThreadState("watcher").pc = "idle"
    /\ db_threads' = Put(db_threads, "watcher",
                         [Idle EXCEPT !.pc = "scan", !.op = "scan_database"])
    /\ known_dirs' = {}
    /\ last_call' = Call("enter", <<"watcher", "scan_database">>, TRUE)
    /\ UNCHANGED <<disk, data_cache, cache_file, raw_files, processed_files, found>>
    /\ UNCHANGED <<now, catalogVars, delayedVars, schedulerVars, retryVars, taskVars,
                   ingestVars, pickupVars, storageVars>>

\* the rest of _rescan_database: the catalog lists what is on disk, then
\* _scan_all_products scans every listed directory
RescanEnd ==
    /\ ThreadState("watcher").pc = "scan"
    /\ db_threads' = Put(db_threads, "watcher", Idle)
    /\ known_dirs' = {raw_files[name].dir : name \in DOMAIN raw_files}
    /\ LET st == ScanAllProducts(known_dirs')
       IN /\ processed_files' = st.processed
          /\ found' = st.found
          /\ file_events' = file_events \cup Emitted(st)
    /\ last_call' = Call("rescan_database", "", TRUE)
    /\ UNCHANGED <<disk, data_cache, cache_file, raw_files, processing_logs,
                   dropped_files, log_status>>
    /\ UNCHANGED <<now, catalogVars, delayedVars, schedulerVars, retryVars, taskVars,
                   ingestVars, storageVars>>

\* the light scan of the run loop between two rescans
WatcherLightScan ==
    /\ online_running
    /\ ThreadState("watcher").pc = "idle"
    /\ LightScan

\* OnlineProcessManager.enqueue_file run for the file_found signal k
FileFoundSlot(k) ==
    /\ k \in file_events
    /\ file_events' = file_events \ {k}
    /\ IF ~online_running
       THEN /\ last_call' = Call("enqueue_file", k, FALSE)
            /\ UNCHANGED <<components, processing_queue, processing_logs, dropped_files>>
       ELSE IF DirOf(k[1]) \notin known_dirs
       THEN /\ dropped_files' = dropped_files \cup {k}
            /\ last_call' = Call("enqueue_file", k, FALSE)
            /\ UNCHANGED <<components, processing_queue, processing_logs>>
       ELSE /\ Len(processing_queue) < MaxQueue
            /\ LET c == ExtractComponent(k[1])
               IN /\ components' = IF c \in DOMAIN components
                                   THEN [components EXCEPT ![c].csv_path = RawCsv(c)]
                                   ELSE Put(components, c, ComponentInfo(RawCsv(c)))
                  /\ processing_queue' = Append(processing_queue, c)
            /\ processing_logs' = processing_logs \cup {k}
            /\ last_call' = Call("enqueue_file", k, TRUE)
            /\ UNCHANGED dropped_files
    /\ UNCHANGED <<storageVars, dbVars, now, fs, delayedVars, schedulerVars, retryVars, taskVars,
                   online_running, current_tasks, task_map, delivered,
                   ingest_created, watcherVars, log_status>>

InitPickup ==
    /\ now = 0
    /\ InitCatalog({})
    /\ InitMigration
    /\ InitIngest
    /\ InitWatcher
    /\ InitStorage
    /\ InitDb

NextPickup ==
    \/ OnlineStart
    \/ RescanBegin
    \/ RescanEnd
    \/ WatcherLightScan
    \/ \E name \in {RawName1, RawName2}, size \in FileSizes :
           EnvWriteFile(name, size, 1)
    \/ \E k \in FileNames \X FileSizes \X FileMtimes : FileFoundSlot(k)

SpecPickup == InitPickup /\ [][NextPickup]_vars

(***************************************************************************)
(* Properties of the pickup of dropped files                               *)
(***************************************************************************)
\* the file version k is still the one on disk
C23_OnDisk(k) ==
    /\ k[1] \in DOMAIN raw_files
    /\ raw_files[k[1]].size = k[2]
    /\ raw_files[k[1]].mtime = k[3]

\* C23: when a rescan of the catalog completes, every file whose file_found
\* was dropped for an absent lot, which is still on disk and whose lot the
\* rescan listed, has its file_found emitted again or has a ProcessingLog
C23_DroppedFilePickedUpByRescan ==
    [][(ThreadState("watcher").pc = "scan" /\ last_call'.op = "rescan_database")
          => \A k \in dropped_files :
                (C23_OnDisk(k) /\ DirOf(k[1]) \in known_dirs')
                    => (k \in file_events' \/ k \in processing_logs')]_vars

(***************************************************************************)
(* Properties of the ingest controller's bookkeeping                       *)
(***************************************************************************)
\* the slot of task_completed runs for task i in this step
C24_Delivered(i) == i \notin delivered /\ i \in delivered'

\* C24: between handlers current_tasks is the number of entries of task_map;
\* the task_completed of a task the ingest controller dispatched finds the
\* task mapped, closes its log as completed (success) or failed (no
\* success) and takes one off current_tasks; current_tasks goes down at no
\* other step
C24_LogClosedAndCountedOnce ==
    /\ [](current_tasks = Cardinality(task_map))
    /\ [][\A i \in ingest_created :
             C24_Delivered(i) =>
                 /\ i \in task_map
                 /\ i \notin task_map'
                 /\ log_status[i] = "processing"
                 /\ log_status'[i] = IF tasks[i].success THEN "completed" ELSE "failed"
                 /\ current_tasks' = current_tasks - 1]_vars
    /\ [][current_tasks' < current_tasks =>
             \E i \in ingest_created : C24_Delivered(i)]_vars
    /\ [][\A i \in DOMAIN log_status :
             log_status[i] # "processing" => log_status'[i] = log_status[i]]_vars

\* two dispatched basemap tasks have reported and every log is closed
C24_Witness ==
    /\ Cardinality(delivered \cap ingest_created) >= 2
    /\ \A i \in delivered \cap ingest_created : log_status[i] \in {"completed", "failed"}
    /\ current_tasks = 0

(***************************************************************************)
(* Properties of the alignment gate of generate_basemap                    *)
(***************************************************************************)
\* the files, directories left out, under the csv and map trees
C25_CsvAndMapFiles(fsx) ==
    {p \in fsx : p[2] \in {"csv", "basemap"} /\ p[3] \notin {StationDir, LotDir}}

\* C25: a generate_basemap call on an existing raw csv whose alignment check
\* returned fail or error returns failure, leaves csv_path as it was and
\* creates no file under csv or map
C25_NoStrippingWithoutAlignment ==
    [][(/\ last_call'.op = "generate_basemap"
        /\ last_call'.arg \in DOMAIN components
        /\ components[last_call'.arg].csv_path # Null
        /\ Exists(fs, components[last_call'.arg].csv_path)
        /\ IsAoiName(components[last_call'.arg].csv_path)
        /\ last_call'.align # "success")
          => /\ ~last_call'.ok
             /\ components'[last_call'.arg].csv_path =
                    components[last_call'.arg].csv_path
             /\ C25_CsvAndMapFiles(fs') = C25_CsvAndMapFiles(fs)]_vars

(***************************************************************************)
(* Properties of a failed move                                             *)
(***************************************************************************)
\* C26: a move_files call that returns failure leaves the component's
\* product and every path field of the component as they were
C26_FailedMoveLeavesComponent ==
    [][(/\ last_call'.op = "move_files"
        /\ ~last_call'.ok
        /\ last_call'.arg \in DOMAIN components)
          => /\ last_call'.arg \in DOMAIN components'
             /\ components'[last_call'.arg] = components[last_call'.arg]]_vars

(***************************************************************************)
(* Storage tier mover (StorageMoveManager).  A file is the triple of its   *)
(* tree, its component directory and its name; get_archive_path maps it to *)
(* the same triple under the archive path.                                 *)
(***************************************************************************)
StorageFiles ==
    {<<"org", "CMP1", "A">>, <<"org", "CMP1", "B">>, <<"roi", "CMP2", "A">>}

FullSize == 2        \* os.path.getsize of a stored file
PartSize == 1        \* size of a target whose copy stopped half way
FileAges == {2, 8}   \* days since st_mtime

\* where a safe_move_file call may go wrong: not at all, too little archive
\* space, shutil.copy2 raises after it began writing, the sizes differ after
\* the copy, os.remove(source) raises
MoveFaults == {"none", "space", "copy", "mismatch", "remove"}

\* scheduled_archive.archive_rules as configured: type -> min_age_days
ArchiveRules == [t \in {"org", "roi"} |-> 7]
EmergencyMinAge == 1
WarningMinAge == 7

Store == [main |-> main_files, archive |-> archive_files]

\* safe_move_file up to and including shutil.copy2; go says whether the
\* size check is reached
SafeMoveCopy(st, f, fault) ==
    IF f \notin DOMAIN st.main THEN [st |-> st, go |-> FALSE]
    ELSE IF fault = "space" THEN [st |-> st, go |-> FALSE]
    ELSE IF fault = "copy"
    THEN [st |-> [st EXCEPT !.archive = Put(@, f, PartSize)], go |-> FALSE]
    ELSE [st |-> [st EXCEPT !.archive =
                     Put(@, f, IF fault = "mismatch" THEN PartSize
                               ELSE st.main[f].size)],
          go |-> TRUE]

\* safe_move_file from the size check on
SafeMoveVerify(st, f, fault) ==
    IF f \notin DOMAIN st.main
    THEN [st |-> st, ok |-> FALSE]        \* os.path.getsize(source) raises
    ELSE IF f \in DOMAIN st.archive /\ st.archive[f] = st.main[f].size
    THEN IF fault = "remove"
         THEN [st |-> st, ok |-> FALSE]
         ELSE [st |-> [st EXCEPT !.main = Del(@, f)], ok |-> TRUE]
    ELSE [st |-> [st EXCEPT !.archive = IF f \in DOMAIN @ THEN Del(@, f) ELSE @],
          ok |-> FALSE]

\* StorageMoveManager.safe_move_file(source, target)
SafeMoveFile(st, f, fault) ==
    LET c == SafeMoveCopy(st, f, fault)
    IN IF c.go THEN SafeMoveVerify(c.st, f, fault)
       ELSE [st |-> c.st, ok |-> FALSE]

\* find_old_files_by_type: every file of a component directory whose oldest
\* file is older than min_age_days
FindOldFilesByType(main, file_type, min_age_days) ==
    {f \in DOMAIN main :
        /\ f[1] = file_type
        /\ \E g \in DOMAIN main :
              g[1] = file_type /\ g[2] = f[2] /\ main[g].age > min_age_days}

\* the loop over the files of the components of a pass; the result is
\* [st, moved, failed] with the files safe_move_file moved and did not move
RECURSIVE MoveLoopFiles(_, _, _, _, _)
MoveLoopFiles(st, todo, faults, moved, failed) ==
    IF todo = {} THEN [st |-> st, moved |-> moved, failed |-> failed]
    ELSE LET f == CHOOSE x \in todo : TRUE
             r == SafeMoveFile(st, f, faults[f])
         IN MoveLoopFiles(r.st, todo \ {f}, faults,
                          IF r.ok THEN moved \cup {f} ELSE moved,
                          IF r.ok THEN failed ELSE failed \cup {f})

\* _archive_files_by_type: a component's moved files are counted only when
\* none of its files failed
ArchiveFilesByType(st, file_type, min_age_days, faults) ==
    LET r == MoveLoopFiles(st, FindOldFilesByType(st.main, file_type, min_age_days),
                           faults, {}, {})
    IN [st |-> r.st,
        moved_count |-> Cardinality({f \in r.moved :
                                        ~\E g \in r.failed : g[2] = f[2]}),
        errors |-> Cardinality(r.failed)]

\* add_archive_report: append, keep the last 100
AddArchiveReport(reports, report) ==
    LET all == Append(reports, report)
    IN IF Len(all) > 100 THEN SubSeq(all, Len(all) - 99, Len(all)) ELSE all

\* the faults of one pass: the files of bad fail in the way kind
PassFaults(bad, kind) == [f \in StorageFiles |-> IF f \in bad THEN kind ELSE "none"]

\* a file appears under the local storage path
EnvStoreFile(f, age) ==
    /\ f \notin DOMAIN main_files
    /\ f \notin DOMAIN archive_files
    /\ main_files' = Put(main_files, f, [size |-> FullSize, age |-> age])
    /\ last_call' = Call("env_store_file", f, TRUE)
    /\ UNCHANGED <<archive_files, archive_reports, last_scheduled_run, move_call>>
    /\ UNCHANGED <<now, catalogVars, delayedVars, schedulerVars, retryVars, taskVars,
                   ingestVars, watcherVars, dbVars, pickupVars>>

\* StorageMoveManager._run_scheduled_archive
RunScheduledArchive ==
    /\ Len(archive_reports) < MaxReports
    /\ IF last_scheduled_run # NoTime
          /\ ((now - last_scheduled_run) % DaySeconds) < HourSeconds
       THEN /\ last_call' = Call("scheduled_archive", "", FALSE)
            /\ UNCHANGED <<main_files, archive_files, archive_reports,
                           last_scheduled_run>>
       ELSE \E bad \in SUBSET StorageFiles, kind \in MoveFaults \ {"none"} :
              LET org == ArchiveFilesByType(Store, "org", ArchiveRules["org"],
                                            PassFaults(bad, kind))
                  roi == ArchiveFilesByType(org.st, "roi", ArchiveRules["roi"],
                                            PassFaults(bad, kind))
              IN /\ main_files' = roi.st.main
                 /\ archive_files' = roi.st.archive
                 /\ archive_reports' = AddArchiveReport(archive_reports,
                        [type |-> "scheduled_archive",
                         success |-> (org.errors + roi.errors = 0),
                         files_moved |-> org.moved_count + roi.moved_count,
                         file_types |-> [t \in {"org", "roi"} |->
                                            IF t = "org" THEN org.moved_count
                                            ELSE roi.moved_count]])
                 /\ last_scheduled_run' = now
                 /\ last_call' = Call("scheduled_archive", "", TRUE)
    /\ UNCHANGED move_call
    /\ UNCHANGED <<now, catalogVars, delayedVars, schedulerVars, retryVars, taskVars,
                   ingestVars, watcherVars, dbVars, pickupVars>>

\* _emergency_move and _warning_move: the old org files are moved and the
\* count is logged
ThresholdMove(op, min_age_days) ==
    /\ \E bad \in SUBSET StorageFiles, kind \in MoveFaults \ {"none"} :
          LET r == MoveLoopFiles(Store, FindOldFilesByType(main_files, "org",
                                                           min_age_days),
                                 PassFaults(bad, kind), {}, {})
          IN /\ main_files' = r.st.main
             /\ archive_files' = r.st.archive
    /\ last_call' = Call(op, "", TRUE)
    /\ UNCHANGED <<archive_reports, last_scheduled_run, move_call>>
    /\ UNCHANGED <<now, catalogVars, delayedVars, schedulerVars, retryVars, taskVars,
                   ingestVars, watcherVars, dbVars, pickupVars>>

\* _monitor_loop with check_storage_status reporting critical or warning
EmergencyMove == ThresholdMove("emergency_move", EmergencyMinAge)

WarningMove == ThresholdMove("warning_move", WarningMinAge)

\* one safe_move_file call followed through its two halves: the checks and
\* the copy
SafeMoveBegin(f, fault) ==
    /\ move_call = <<>>
    /\ LET c == SafeMoveCopy(Store, f, fault)
       IN /\ main_files' = c.st.main
          /\ archive_files' = c.st.archive
          /\ IF c.go
             THEN /\ move_call' = <<[file |-> f, fault |-> fault]>>
                  /\ last_call' = Call("enter", <<"safe_move_file", f>>, TRUE)
             ELSE /\ move_call' = <<>>
                  /\ last_call' = Call("safe_move_file", f, FALSE)
    /\ UNCHANGED <<archive_reports, last_scheduled_run>>
    /\ UNCHANGED <<now, catalogVars, delayedVars, schedulerVars, retryVars, taskVars,
                   ingestVars, watcherVars, dbVars, pickupVars>>

\* the size check, the removal of the source or of the target, the return
SafeMoveEnd ==
    /\ move_call # <<>>
    /\ LET r == SafeMoveVerify(Store, move_call[1].file, move_call[1].fault)
       IN /\ main_files' = r.st.main
          /\ archive_files' = r.st.archive
          /\ last_call' = Call("safe_move_file", move_call[1].file, r.ok)
    /\ move_call' = <<>>
    /\ UNCHANGED <<archive_reports, last_scheduled_run>>
    /\ UNCHANGED <<now, catalogVars, delayedVars, schedulerVars, retryVars, taskVars,
                   ingestVars, watcherVars, dbVars, pickupVars>>

InitArchive ==
    /\ now = 0
    /\ InitCatalog({})
    /\ InitMigration
    /\ InitIngest
    /\ InitWatcher
    /\ InitStorage
    /\ InitDb

NextArchive ==
    \/ Tick(MaxShortTicks * TickSeconds)
    \/ \E f \in StorageFiles, age \in FileAges : EnvStoreFile(f, age)
    \/ RunScheduledArchive
    \/ EmergencyMove
    \/ WarningMove

SpecArchive == InitArchive /\ [][NextArchive]_vars

NextSafeMove ==
    \/ \E f \in StorageFiles, age \in FileAges : EnvStoreFile(f, age)
    \/ \E f \in StorageFiles, fault \in MoveFaults : SafeMoveBegin(f, fault)
    \/ SafeMoveEnd

SpecSafeMove == InitArchive /\ [][NextSafeMove]_vars

(***************************************************************************)
(* Properties of the storage tier mover                                    *)
(***************************************************************************)
\* the files a step took from the local storage to the archive
C27_MovedNow ==
    {f \in DOMAIN main_files : f \notin DOMAIN main_files' /\ f \in DOMAIN archive_files'}

\* C27: every archival pass, scheduled or threshold-driven, appends one
\* report whose files_moved and per-type counts are the files the pass moved
C27_OneAccurateReportPerPass ==
    [][((last_call'.op = "scheduled_archive" /\ last_call'.ok)
            \/ last_call'.op \in {"emergency_move", "warning_move"})
          => /\ Len(archive_reports') = Len(archive_reports) + 1
             /\ LET report == archive_reports'[Len(archive_reports')]
                IN /\ report.files_moved = Cardinality(C27_MovedNow)
                   /\ \A t \in {"org", "roi"} :
                         (IF t \in DOMAIN report.file_types
                          THEN report.file_types[t] ELSE 0)
                             = Cardinality({f \in C27_MovedNow : f[1] = t})]_vars

\* the scheduled pass alone: its report counts the files it moved
C27_ScheduledReportAccurate ==
    [][(last_call'.op = "scheduled_archive" /\ last_call'.ok)
          => /\ Len(archive_reports') = Len(archive_reports) + 1
             /\ archive_reports'[Len(archive_reports')].files_moved
                    = Cardinality(C27_MovedNow)]_vars

\* C28: a safe_move_file that returns success leaves the target with the
\* source's size and no source; one that returns failure leaves the source as
\* it was and no target shorter than the source; no step leaves a file
\* absent from both places
C28_SafeMoveAllOrNothing ==
    /\ [][(last_call'.op = "safe_move_file" /\ last_call'.ok)
            => LET f == last_call'.arg
               IN /\ f \in DOMAIN main_files
                  /\ f \notin DOMAIN main_files'
                  /\ f \in DOMAIN archive_files'
                  /\ archive_files'[f] = main_files[f].size]_vars
    /\ [][(last_call'.op = "safe_move_file" /\ ~last_call'.ok)
            => LET f == last_call'.arg
               IN /\ main_files' = main_files
                  /\ (f \in DOMAIN main_files /\ f \in DOMAIN archive_files')
                        => archive_files'[f] = main_files[f].size]_vars
    /\ [][\A f \in DOMAIN main_files \cup DOMAIN archive_files :
             f \in DOMAIN main_files' \cup DOMAIN archive_files']_vars

(***************************************************************************)
(* FPY generation, serial and parallel.  inp gives for every component     *)
(* what its files hold: outcome says how far the processing of a readable  *)
(* csv gets, fpy is the value round(mean * 100, 2) computed from it, taken  *)
(* to be the same for the components of one call.                          *)
(***************************************************************************)
\* load_csv returns None; convert_to_binary raises ValueError for a table
\* without DefectType; plot_fpy_map returns False; everything works
FpyOutcomes == {"unreadable", "raises", "plot_false", "ok"}
FpyValues == {0, 100}
FpyInputs(cs) ==
    {[c \in cs |-> [outcome |-> o[c], fpy |-> v]] :
        o \in [cs -> FpyOutcomes], v \in FpyValues}

\* get_components_by_lot_station: the components in the order of the catalog
ComponentsByLotStation(comps) == CHOOSE o \in Orders(DOMAIN comps) : TRUE

\* how the loop body meets component c
FpyCase(comps, fsx, c, inp) ==
    IF comps[c].csv_path = Null \/ ~Exists(fsx, comps[c].csv_path) THEN "missing"
    ELSE IF IsAoiName(comps[c].csv_path) THEN "raw"
    ELSE inp[c].outcome

FpyPath(c) == GetPath(SourceProduct, "fpy", c)

\* the result of both functions: the catalog and the files they leave, the
\* flag they return, the two counters and the rows of summary_<station>.csv
FpyResult(comps, fsx, ok, acc) ==
    [comps |-> comps, fs |-> fsx, ok |-> ok, success_count |-> acc.success,
     fail_count |-> acc.fail, summary |-> acc.summary]

\* the tail of both functions: the summary file and the returned flag
FpyFinish(comps, fsx, acc) ==
    FpyResult(comps,
              IF acc.summary # <<>> THEN fsx \cup {FpyPath("summary")} ELSE fsx,
              acc.fail = 0 \/ acc.success > 0,
              acc)

\* DataProcessor.generate_fpy, the loop over the components from position i
RECURSIVE GenerateFpyLoop(_, _, _, _, _, _)
GenerateFpyLoop(comps, fsx, order, inp, i, acc) ==
    IF i > Len(order) THEN FpyFinish(comps, fsx, acc)
    ELSE LET c == order[i]
             case == FpyCase(comps, fsx, c, inp)
             row == Append(acc.summary, <<c, inp[c].fpy>>)
         IN IF case \in {"missing", "unreadable"}
            THEN GenerateFpyLoop(comps, fsx, order, inp, i + 1,
                                 [acc EXCEPT !.fail = @ + 1])
            ELSE IF case = "raw"
            THEN GenerateFpyLoop(comps, fsx, order, inp, i + 1, acc)
            ELSE IF case = "raises"
            THEN FpyResult(comps, fsx, FALSE, [acc EXCEPT !.summary = <<>>])
            ELSE IF case = "plot_false"
            THEN GenerateFpyLoop(comps, fsx, order, inp, i + 1,
                                 [acc EXCEPT !.fail = @ + 1, !.summary = row])
            ELSE GenerateFpyLoop([comps EXCEPT ![c].fpy_path = FpyPath(c)],
                                 fsx \cup {FpyPath(c)}, order, inp, i + 1,
                                 [acc EXCEPT !.success = @ + 1, !.summary = row])

\* DataProcessor.generate_fpy(product_id, lot_id, station)
GenerateFpy(comps, fsx, inp) ==
    IF DOMAIN comps = {}
    THEN FpyResult(comps, fsx, FALSE, [success |-> 0, fail |-> 0, summary |-> <<>>])
    ELSE GenerateFpyLoop(comps, fsx, ComponentsByLotStation(comps), inp, 1,
                         [success |-> 0, fail |-> 0, summary |-> <<>>])

\* process_component of generate_fpy_parallel, run by a pool worker: it
\* reads the catalog, writes the image and returns [success, fpy_data]
ProcessComponent(comps, fsx, c, inp) ==
    IF FpyCase(comps, fsx, c, inp) = "ok"
    THEN [success |-> TRUE, fpy_data |-> <<[ID |-> c, FPY |-> inp[c].fpy,
                                            path |-> FpyPath(c)]>>]
    ELSE [success |-> FALSE, fpy_data |-> <<>>]

\* generate_fpy_parallel, the collection of the futures in the task's thread
RECURSIVE CollectFutures(_, _, _, _, _, _)
CollectFutures(comps, fsx, order, inp, i, acc) ==
    IF i > Len(order) THEN acc
    ELSE LET r == ProcessComponent(comps, fsx, order[i], inp)
         IN CollectFutures(comps, fsx, order, inp, i + 1,
                IF r.success
                THEN [acc EXCEPT !.success = @ + 1,
                                 !.summary = Append(@, <<r.fpy_data[1].ID,
                                                         r.fpy_data[1].FPY>>),
                                 !.update = Append(@, <<r.fpy_data[1].ID,
                                                        r.fpy_data[1].path>>)]
                ELSE [acc EXCEPT !.fail = @ + 1])

\* the loop over components_to_update in the task's thread
RECURSIVE UpdateFpyPaths(_, _)
UpdateFpyPaths(comps, update) ==
    IF update = <<>> THEN comps
    ELSE UpdateFpyPaths(IF update[1][1] \in DOMAIN comps
                        THEN [comps EXCEPT ![update[1][1]].fpy_path = update[1][2]]
                        ELSE comps,
                        Tail(update))

\* DataProcessor.generate_fpy_parallel(product_id, lot_id, station)
GenerateFpyParallel(comps, fsx, inp) ==
    IF DOMAIN comps = {}
    THEN FpyResult(comps, fsx, FALSE, [success |-> 0, fail |-> 0, summary |-> <<>>])
    ELSE LET order == ComponentsByLotStation(comps)
             acc == CollectFutures(comps, fsx, order, inp, 1,
                                   [success |-> 0, fail |-> 0, summary |-> <<>>,
                                    update |-> <<>>])
         IN FpyFinish(UpdateFpyPaths(comps, acc.update),
                      fsx \cup {acc.update[k][2] : k \in 1..Len(acc.update)},
                      acc)

\* a task body calls generate_fpy or generate_fpy_parallel
GenerateFpyCall(parallel) ==
    /\ \E inp \in FpyInputs(DOMAIN components) :
          LET r == IF parallel THEN GenerateFpyParallel(components, fs, inp)
                   ELSE GenerateFpy(components, fs, inp)
          IN /\ fs' = r.fs
             /\ components' = r.comps
             /\ last_call' = [op |-> IF parallel THEN "generate_fpy_parallel"
                                     ELSE "generate_fpy",
                              arg |-> inp, ok |-> r.ok,
                              success_count |-> r.success_count,
                              fail_count |-> r.fail_count,
                              summary |-> r.summary]
    /\ UNCHANGED <<storageVars, pickupVars, dbVars, ingestVars, watcherVars, now,
                   delayedVars, schedulerVars, retryVars, taskVars>>

InitFpy ==
    /\ now = 0
    /\ InitCatalog(Components)
    /\ InitMigration
    /\ InitIngest
    /\ InitWatcher
    /\ InitStorage
    /\ InitDb

NextFpy ==
    \/ \E c \in DOMAIN components : GenerateBasemapCall(c)
    \/ GenerateFpyCall(FALSE)
    \/ GenerateFpyCall(TRUE)

SpecFpy == InitFpy /\ [][NextFpy]_vars

(***************************************************************************)
(* Properties of FPY generation                                            *)
(***************************************************************************)
\* C29: on the catalog, the files and the file contents of any call of
\* either function, generate_fpy and generate_fpy_parallel return the same
\* flag and the same counters, write the same summary rows and leave the
\* same fpy_path values
C29_ParallelFpyEqualsSerial ==
    [][last_call'.op \in {"generate_fpy", "generate_fpy_parallel"}
          => LET serial == GenerateFpy(components, fs, last_call'.arg)
                 parallel == GenerateFpyParallel(components, fs, last_call'.arg)
             IN /\ serial.ok = parallel.ok
                /\ serial.success_count = parallel.success_count
                /\ serial.fail_count = parallel.fail_count
                /\ serial.summary = parallel.summary
                /\ \A c \in DOMAIN components :
                      serial.comps[c].fpy_path = parallel.comps[c].fpy_path]_vars

\* the same with every csv in its processed form, readable and with the
\* columns convert_to_binary needs
C29_EqualOnCleanInputs ==
    [][(/\ last_call'.op \in {"generate_fpy", "generate_fpy_parallel"}
        /\ \A c \in DOMAIN components :
              FpyCase(components, fs, c, last_call'.arg) \in {"missing", "unreadable", "ok"})
          => LET serial == GenerateFpy(components, fs, last_call'.arg)
                 parallel == GenerateFpyParallel(components, fs, last_call'.arg)
             IN serial = parallel]_vars

(***************************************************************************)
(* Loss points (calculate_loss_points).  A binarized table is the sequence *)
(* of its rows [Col, Row, binary].                                         *)
(***************************************************************************)
MaxRows == 2     \* rows a binarized table may hold
BinaryRows == [Col : {1}, Row : {1, 2}, binary : {0, 1}]
BinaryTables == UNION {[1..n -> BinaryRows] : n \in 0..MaxRows}

\* pd.merge(prev_df, curr_df, on=['Col', 'Row']): one row for every pair of
\* a prev row and a curr row with the same key, in the order of prev
RECURSIVE MergeOnColRow(_, _, _, _)
MergeOnColRow(prev_df, curr_df, i, j) ==
    IF i > Len(prev_df) THEN <<>>
    ELSE IF j > Len(curr_df) THEN MergeOnColRow(prev_df, curr_df, i + 1, 1)
    ELSE (IF prev_df[i].Col = curr_df[j].Col /\ prev_df[i].Row = curr_df[j].Row
          THEN <<[Col |-> prev_df[i].Col, Row |-> prev_df[i].Row,
                  binary_prev |-> prev_df[i].binary,
                  binary_curr |-> curr_df[j].binary]>>
          ELSE <<>>)
         \o MergeOnColRow(prev_df, curr_df, i, j + 1)

\* merged[(binary_prev == p) & (binary_curr == c)] with its status column
RECURSIVE StatusRows(_, _, _, _)
StatusRows(merged, p, c, status) ==
    IF merged = <<>> THEN <<>>
    ELSE (IF merged[1].binary_prev = p /\ merged[1].binary_curr = c
          THEN <<[Col |-> merged[1].Col, Row |-> merged[1].Row, status |-> status]>>
          ELSE <<>>)
         \o StatusRows(Tail(merged), p, c, status)

\* calculate_loss_points(prev_df, curr_df)
CalculateLossPoints(prev_df, curr_df) ==
    LET merged == MergeOnColRow(prev_df, curr_df, 1, 1)
    IN StatusRows(merged, 1, 1, "good_to_good")
           \o StatusRows(merged, 1, 0, "good_to_bad")
           \o StatusRows(merged, 0, 0, "bad_to_bad")

\* generate_lossmap classifies the tables of a component's two stations
CalculateLossPointsCall ==
    /\ \E prev_df \in BinaryTables, curr_df \in BinaryTables :
          last_call' = [op |-> "calculate_loss_points", arg |-> <<prev_df, curr_df>>,
                        ok |-> TRUE, result |-> CalculateLossPoints(prev_df, curr_df)]
    /\ UNCHANGED <<storageVars, pickupVars, dbVars, ingestVars, watcherVars, now,
                   catalogVars, delayedVars, schedulerVars, retryVars, taskVars>>

InitLossPoints ==
    /\ now = 0
    /\ InitCatalog({})
    /\ InitMigration
    /\ InitIngest
    /\ InitWatcher
    /\ InitStorage
    /\ InitDb

NextLossPoints == CalculateLossPointsCall

SpecLossPoints == InitLossPoints /\ [][NextLossPoints]_vars

(***************************************************************************)
(* Properties of the loss points                                           *)
(***************************************************************************)
\* the coordinates of a table
C30_Keys(df) == {<<df[i].Col, df[i].Row>> : i \in 1..Len(df)}

\* the rows of the result at a coordinate
C30_RowsAt(result, xy) == {i \in 1..Len(result) : <<result[i].Col, result[i].Row>> = xy}

\* C30: the result of calculate_loss_points has exactly one row for every
\* coordinate that is in both tables, none for any other coordinate, and
\* every status is good_to_good, good_to_bad or bad_to_bad
C30_EveryJoinedPointClassifiedOnce ==
    last_call.op = "calculate_loss_points"
        => LET prev_df == last_call.arg[1]
               curr_df == last_call.arg[2]
               result == last_call.result
           IN /\ \A xy \in C30_Keys(prev_df) \cap C30_Keys(curr_df) :
                    Cardinality(C30_RowsAt(result, xy)) = 1
              /\ C30_Keys(result) \subseteq C30_Keys(prev_df) \cap C30_Keys(curr_df)
              /\ \A i \in 1..Len(result) :
                    result[i].status \in {"good_to_good", "good_to_bad", "bad_to_bad"}

\* the same for tables that hold every coordinate once and no point that
\* was bad and is good
C30_ClassifiedOnceWithoutRecovery ==
    (/\ last_call.op = "calculate_loss_points"
     /\ \A k \in 1..2 : \A i, j \in 1..Len(last_call.arg[k]) :
           (i # j) => <<last_call.arg[k][i].Col, last_call.arg[k][i].Row>>
                         # <<last_call.arg[k][j].Col, last_call.arg[k][j].Row>>
     /\ \A i \in 1..Len(last_call.arg[1]), j \in 1..Len(last_call.arg[2]) :
           ~(/\ last_call.arg[1][i].Row = last_call.arg[2][j].Row
             /\ last_call.arg[1][i].binary = 0
             /\ last_call.arg[2][j].binary = 1))
        => LET prev_df == last_call.arg[1]
               curr_df == last_call.arg[2]
               result == last_call.result
           IN /\ \A xy \in C30_Keys(prev_df) \cap C30_Keys(curr_df) :
                    Cardinality(C30_RowsAt(result, xy)) = 1
              /\ C30_Keys(result) \subseteq C30_Keys(prev_df) \cap C30_Keys(curr_df)

(***************************************************************************)
(* SpecCacheRoundTrip: the catalog calls of SpecCatalog, and the program   *)
(* saving its cache and starting again from the file                       *)
(***************************************************************************)
\* DatabaseManager._save_cache followed by the _load_cache of the next
\* DatabaseManager.__init__; the saved list of components is in the order of
\* the dict, which the catalog of this module does not keep
SaveLoadCache ==
    /\ cache_file' = Serialize(data_cache)
    /\ \E comps \in Orders(cache_file'[2].body.components) :
          data_cache' = LoadCache(cache_file'[2].body, comps)
    /\ last_call' = Call("load_cache", data_cache, Parseable(cache_file'))
    /\ UNCHANGED <<disk, db_threads>>
    /\ UNCHANGED <<now, catalogVars, delayedVars, schedulerVars, retryVars, taskVars,
                   ingestVars, watcherVars, pickupVars, storageVars>>

\* ComponentInfo.update_paths(roi_path=...) on a component read from the
\* catalog, stored with update_component
UpdatePathsCall(key) ==
    /\ key \in DOMAIN data_cache.components
    /\ data_cache.components[key].roi_path = Null
    /\ LET r == UpdateComponent(data_cache,
                                [data_cache.components[key] EXCEPT
                                   !.roi_path = <<"roi">>])
       IN /\ StoreOutcome(r)
          /\ last_call' = Call("update_paths", key, r.ok)
    /\ UNCHANGED <<disk, db_threads>>
    /\ UNCHANGED <<now, catalogVars, delayedVars, schedulerVars, retryVars, taskVars,
                   ingestVars, watcherVars, pickupVars, storageVars>>

NextCacheRoundTrip ==
    \/ NextCatalog
    \/ \E key \in DOMAIN data_cache.components : UpdatePathsCall(key)
    \/ SaveLoadCache

SpecCacheRoundTrip == InitTask /\ [][NextCacheRoundTrip]_vars

\* C31: saving the catalog to the cache file and loading it back yields the
\* same products, lots, lot-key map and components, every component under
\* its key and with every field as it was saved
C31_SaveLoadRoundTrip ==
    last_call.op = "load_cache" => data_cache = last_call.arg

\* C32: a tick of the ingest controller dispatches queued logs until the cap
\* is reached: after the tick the work queue is empty or the number of
\* running tasks equals max_concurrent_tasks
C32_TickDispatchesUntilCap ==
    [][ProcessNext => (\/ processing_queue' = <<>>
                       \/ current_tasks' = MaxConcurrentTasks)]_vars

\* the org and roi source directories selected for monitored component c
\* are all present
C33_AllPathsComplete(c) ==
    \A i \in 1..Len(path_monitors[c].file_types) :
        IsDirType(path_monitors[c].file_types[i]) =>
            Exists(fs, GetPath(path_monitors[c].source_product,
                               path_monitors[c].file_types[i], c))

\* C33: a sweep of the readiness monitor that finds every selected org and
\* roi source directory of a monitored component present moves the
\* component and leaves it out of the monitor, so that a later sweep does
\* not move it again
C33_ReadyComponentLeavesMonitor ==
    [][PathSweep =>
          \A c \in DOMAIN path_monitors :
              C33_AllPathsComplete(c) => c \notin DOMAIN path_monitors']_vars

(***************************************************************************)
(* SpecLedger: the failure ledger and the two queues it is said to gate    *)
(***************************************************************************)
\* DelayedMoveManager.reset_failure_record
ResetFailureRecord(c) ==
    /\ c \in DOMAIN failed_components
    /\ failed_components' = Del(failed_components, c)
    /\ last_call' = Call("reset_failure_record", c, TRUE)
    /\ UNCHANGED <<storageVars, pickupVars, dbVars, ingestVars, watcherVars, now, catalogVars, move_queue, schedulerVars, retryVars, taskVars>>

NextLedger ==
    \/ \E c \in Components : RecordComponentFailure(c)
    \/ \E c \in Components : ResetFailureRecord(c)
    \/ \E c \in Components : AddToDelayedQueueCall(c)
    \/ \E c \in DOMAIN components : MoveFilesCall(c, DelayedFileTypes, {})
    \/ Tick(ScheduledTime + MaxShortTicks * TickSeconds)

SpecLedger == InitDelayed /\ [][NextLedger]_vars

\* the failures record_component_failure has recorded for c: the first call
\* creates the entry with retry_count 0, every later call adds one
C34_RecordedFailures(c) ==
    IF c \in DOMAIN failed_components THEN failed_components[c] + 1 ELSE 0

\* C34: once the ledger holds max_retry_count recorded failures for a
\* component, add_to_delayed_queue leaves the delayed queue as it is and
\* _add_to_retry_queue, reached through move_files, leaves the retry queue
\* as it is
C34_LedgerGatesBothQueues ==
    [][\A c \in Components :
          C34_RecordedFailures(c) >= LedgerMaxRetryCount =>
              /\ (last_call'.op = "add_to_delayed_queue" /\ last_call'.arg = c)
                     => move_queue' = move_queue
              /\ (last_call'.op = "move_files" /\ last_call'.arg = c)
                     => retry_queue' = retry_queue]_vars

\* the part of C34 about the delayed queue alone
C34_LedgerGatesDelayedQueue ==
    [][\A c \in Components :
          C34_RecordedFailures(c) >= LedgerMaxRetryCount =>
              ((last_call'.op = "add_to_delayed_queue" /\ last_call'.arg = c)
                  => move_queue' = move_queue)]_vars

\* the part of C34 about the retry queue alone
C34_LedgerGatesRetryQueue ==
    [][\A c \in Components :
          C34_RecordedFailures(c) >= LedgerMaxRetryCount =>
              ((last_call'.op = "move_files" /\ last_call'.arg = c)
                  => retry_queue' = retry_queue)]_vars

\* add_to_delayed_queue does suppress the add one recorded failure later,
\* when retry_count itself has reached max_retry_count
C34_GateAfterOneMoreFailure ==
    [][\A c \in Components :
          C34_RecordedFailures(c) > LedgerMaxRetryCount =>
              ((last_call'.op = "add_to_delayed_queue" /\ last_call'.arg = c)
                  => move_queue' = move_queue)]_vars

\* the files a step moved out of a component group of which another file
\* stayed behind: the pass selects whole groups, so the file that stayed is
\* one safe_move_file did not move
C35_MovedOfPartialGroups ==
    {f \in C27_MovedNow :
        \E g \in DOMAIN main_files \cap DOMAIN main_files' :
            g[1] = f[1] /\ g[2] = f[2]}

\* C35: in a scheduled archive pass in which some file of a component group
\* fails to move, the files of the group that did move are counted in
\* files_moved and the pass reports errors
C35_PartialGroupStillCounted ==
    [][(last_call'.op = "scheduled_archive" /\ last_call'.ok
            /\ C35_MovedOfPartialGroups # {})
          => LET report == archive_reports'[Len(archive_reports')]
             IN /\ report.files_moved = Cardinality(C27_MovedNow)
                /\ ~report.success]_vars

\* what the pass does report for such a group: errors, and none of the
\* group's files among files_moved
C35_PartialGroupLeftOut ==
    [][(last_call'.op = "scheduled_archive" /\ last_call'.ok
            /\ C35_MovedOfPartialGroups # {})
          => LET report == archive_reports'[Len(archive_reports')]
             IN /\ report.files_moved
                      = Cardinality(C27_MovedNow \ C35_MovedOfPartialGroups)
                /\ ~report.success]_vars

\* the steps the status of a task may take
C36_StatusSteps ==
    {<<"pending", "running">>, <<"running", "completed">>, <<"running", "failed">>}

\* C36: a task's status only moves pending, running, then completed or
\* failed, and once it is completed or failed neither the status nor the
\* task's entry in task_results changes; a task cancel_task marked failed
\* does not become completed when its thread ends
C36_TerminalStatusIsFinal ==
    [][\A i \in 1..Len(tasks) :
          /\ tasks'[i].status # tasks[i].status
                 => <<tasks[i].status, tasks'[i].status>> \in C36_StatusSteps
          /\ (tasks[i].status \in {"completed", "failed"}
                  /\ i \in DOMAIN task_results)
                 => /\ i \in DOMAIN task_results'
                    /\ task_results'[i] = task_results[i]]_vars

\* the same for the tasks cancel_task has not touched
C36_FinalUnlessCancelled ==
    [][\A i \in 1..Len(tasks) :
          ~tasks[i].cancelled =>
              /\ tasks'[i].status # tasks[i].status
                     => <<tasks[i].status, tasks'[i].status>> \in C36_StatusSteps
              /\ (tasks[i].status \in {"completed", "failed"}
                      /\ i \in DOMAIN task_results)
                     => /\ i \in DOMAIN task_results'
                        /\ task_results'[i] = task_results[i]]_vars

\* C37: while an entry stays in the retry queue through a retry sweep its
\* retry_count does not decrease, every failed attempt of the sweep raises
\* it by one, and the entry keeps the backed-off retry time: a failed
\* attempt does not leave a fresh entry of count 0 due RetryDelay later
C37_RetryCountGrowsWithFailedAttempts ==
    [][last_call'.op = "process_retry_queue" =>
          \A c \in DOMAIN retry_queue \cap DOMAIN retry_queue' :
              /\ retry_queue'[c].retry_count >= retry_queue[c].retry_count
              /\ attempts'[c] > attempts[c] =>
                     retry_queue'[c].retry_count = retry_queue[c].retry_count + 1]_vars

\* the retry sweep does count up when the failed move_files did not go
\* through _add_to_retry_queue (the directories exist and shutil.move
\* raises)
C37_GrowsUnlessEntryReplaced ==
    [][last_call'.op = "process_retry_queue" =>
          \A c \in DOMAIN retry_queue \cap DOMAIN retry_queue' :
              (attempts'[c] > attempts[c]
                   /\ \A i \in 1..Len(retry_queue[c].file_types) :
                          Exists(fs, GetPath(retry_queue[c].source_product,
                                             retry_queue[c].file_types[i], c)))
                  => retry_queue'[c].retry_count
                         = retry_queue[c].retry_count + 1]_vars

(***************************************************************************)
(* SpecIngestRescan: raw files found by the watcher, registered in the     *)
(* catalog by enqueue_file and looked up again by _process_next, while the *)
(* watcher thread rescans the catalog.  The handlers of the event-loop     *)
(* thread are taken whole between two steps of the watcher thread.         *)
(***************************************************************************)
\* Path(file).stem of a file name
Stem(name) == SubSeq(name, 1, Len(name) - 1)

\* the raw files the station may write under processed_csv, as sites
RawSites == {<<<<"A">>, <<"X">>, Stem(name)>> : name \in {RawName1, RawName2}}

\* DatabaseManager.get_lots_by_product
GetLotsByProduct(cache, product_id) ==
    LET lots == IF product_id \in DOMAIN cache.products
                THEN cache.products[product_id] ELSE <<>>
    IN {LotsGet(cache.lots, lots[i]) : i \in 1..Len(lots)} \ {NoLot}

\* scan_database on the watcher thread up to the first directory: the
\* catalog is replaced by an empty one and the files on disk are listed,
\* every csv file under its stem
WatcherScanBegin ==
    /\ online_running
    /\ ThreadState("watcher").pc = "idle"
    /\ \E porder \in Orders(ProductIds), lorder \in Orders(LotNames) :
          db_threads' = Put(db_threads, "watcher",
              [Idle EXCEPT !.pc = "scan", !.op = "scan_database",
                           !.before = data_cache,
                           !.sites = ListSites(disk, porder, lorder,
                                         CHOOSE o \in Orders({f[3] : f \in disk}) : TRUE,
                                         1)])
    /\ data_cache' = EmptyCache
    /\ last_call' = Call("enter", <<"watcher", "scan_database">>, TRUE)
    /\ UNCHANGED <<disk, cache_file>>
    /\ UNCHANGED <<now, catalogVars, delayedVars, schedulerVars, retryVars, taskVars,
                   ingestVars, watcherVars, pickupVars, storageVars>>

\* FileWatcher._scan_all_products: file_found is emitted, with the internal
\* id of the lot, for every raw file of a listed lot that was not emitted
\* before; a file of this specification keeps its size and mtime, so that
\* its path stands for its file id
WatcherScanAllProducts ==
    /\ online_running
    /\ ThreadState("watcher").pc = "idle"
    /\ LET new == {<<lot.lot_id, f>> :
                      lot \in UNION {GetLotsByProduct(data_cache, product_id) :
                                        product_id \in DOMAIN data_cache.products},
                      f \in {g \in disk \ processed_files :
                                IsAoiFilename(g[3] \o <<".csv">>)}}
           emitted == {k \in new :
                          \E lot \in GetLotsByProduct(data_cache, k[2][1]) :
                              lot.lot_id = k[1] /\ lot.original_lot_id = k[2][2]}
       IN /\ file_events' = file_events \cup emitted
          /\ processed_files' = processed_files \cup {k[2] : k \in emitted}
    /\ last_call' = Call("scan_all_products", "", TRUE)
    /\ UNCHANGED <<raw_files, known_dirs, found, processing_logs, dropped_files,
                   log_status>>
    /\ UNCHANGED <<now, catalogVars, delayedVars, schedulerVars, retryVars, taskVars,
                   ingestVars, dbVars, storageVars>>

\* OnlineProcessManager.enqueue_file, the slot of file_found, for the
\* signal k = <<lot_id, file>>, with its get_lot, get_component,
\* add_component and update_component on the catalog; the queued log is
\* [lot_id, component_id]
EnqueueFileSlot(k) ==
    /\ k \in file_events
    /\ ThreadState("watcher").pc # "write"
    /\ file_events' = file_events \ {k}
    /\ LET lot_id == k[1]
           component_id == <<ExtractComponent(k[2][3] \o <<".csv">>)>>
           existing_component == GetComponent(data_cache, lot_id, Station, component_id)
           r == IF existing_component = NoComponent
                THEN AddComponent(data_cache,
                                  CatalogComponent(component_id, lot_id, k[2]))
                ELSE IF existing_component.csv_path # k[2]
                THEN UpdateComponent(data_cache,
                                     [existing_component EXCEPT !.csv_path = k[2],
                                                                !.rev = @ + 1])
                ELSE [cache |-> data_cache, ok |-> FALSE]
           queued == /\ online_running
                     /\ GetLot(data_cache, lot_id) # NoLot
                     /\ (existing_component = NoComponent => r.ok)
       IN /\ queued => Len(processing_queue) < MaxQueue
          /\ IF queued
             THEN /\ StoreOutcome(r)
                  /\ processing_queue' =
                         Append(processing_queue,
                                [lot_id |-> lot_id, component_id |-> component_id])
                  /\ processing_logs' = processing_logs \cup {k}
                  /\ UNCHANGED dropped_files
             ELSE /\ data_cache' = IF online_running /\ GetLot(data_cache, lot_id) # NoLot
                                   THEN r.cache ELSE data_cache
                  /\ UNCHANGED <<cache_file, processing_queue, processing_logs>>
                  /\ dropped_files' = dropped_files \cup {k}
          /\ last_call' = Call("enqueue_file", k, queued)
    /\ UNCHANGED <<disk, db_threads, log_status>>
    /\ UNCHANGED <<storageVars, now, catalogVars, delayedVars, schedulerVars, retryVars,
                   taskVars, online_running, current_tasks, task_map, delivered,
                   ingest_created, watcherVars>>

\* OnlineProcessManager._process_next, the slot of process_timer, with its
\* get_component on the catalog
ProcessNextLog ==
    /\ online_running
    /\ ~AtCapacity(current_tasks)
    /\ processing_queue # <<>>
    /\ processing_queue' = Tail(processing_queue)
    /\ LET log == Head(processing_queue)
       IN IF GetComponent(data_cache, log.lot_id, Station, log.component_id)
                = NoComponent
          THEN /\ last_call' = Call("process_next", log, FALSE)
               /\ UNCHANGED <<tasks, current_tasks, task_map, ingest_created,
                              log_status>>
          ELSE /\ Len(tasks) < MaxIngestTasks
               /\ current_tasks' = current_tasks + 1
               /\ tasks' = CreateTask("basemap", log.component_id, NoParams)
               /\ task_map' = task_map \cup {Len(tasks) + 1}
               /\ log_status' = Put(log_status, Len(tasks) + 1, "processing")
               /\ ingest_created' = ingest_created \cup {Len(tasks) + 1}
               /\ last_call' = Call("process_next", log, TRUE)
    /\ UNCHANGED <<file_events, processing_logs, dropped_files>>
    /\ UNCHANGED <<storageVars, dbVars, now, catalogVars, delayedVars, schedulerVars,
                   retryVars, online_running, delivered, watcherVars, task_results>>

NextIngestRescan ==
    \/ OnlineStart
    \/ \E site \in RawSites : EnvWriteCsv(site)
    \/ WatcherScanBegin
    \/ ThreadScanStep("watcher")
    \/ ThreadSaveOpen("watcher")
    \/ ThreadSaveWrite("watcher")
    \/ ThreadReturn("watcher")
    \/ WatcherScanAllProducts
    \/ \E k \in file_events : EnqueueFileSlot(k)
    \/ ProcessNextLog

SpecIngestRescan == InitPickup /\ [][NextIngestRescan]_vars

\* C38: every log an ingest tick pops finds its component in the catalog,
\* whatever the watcher thread's rescans did since enqueue_file registered
\* the component
C38_PoppedLogFindsComponent ==
    [][last_call'.op = "process_next" => last_call'.ok]_vars

(***************************************************************************)
(* SpecLotKeys: the lot ids of the catalog for lot directories whose names *)
(* meet another lot's '{product}_{original}' form, registered by a scan    *)
(* taken directory by directory and by add_component.                      *)
(***************************************************************************)
LotKeySites ==
    {<<<<"A">>, <<"X">>, <<"C1">>>>, <<<<"A">>, <<"B", "_", "X">>, <<"C1">>>>,
     <<<<"B">>, <<"X">>, <<"C1">>>>, <<<<"A", "_", "B">>, <<"X">>, <<"C1">>>>}

\* the station writes the first csv file of a lot directory
EnvWriteLotDir(site) ==
    /\ site \notin disk
    /\ Cardinality(disk) < MaxLotDirs
    /\ disk' = disk \cup {site}
    /\ last_call' = Call("env_write_csv", site, TRUE)
    /\ UNCHANGED <<data_cache, cache_file, db_threads>>
    /\ UNCHANGED <<now, catalogVars, delayedVars, schedulerVars, retryVars, taskVars,
                   ingestVars, watcherVars, pickupVars, storageVars>>

NextLotKeys ==
    \/ \E site \in LotKeySites : EnvWriteLotDir(site)
    \/ ThreadScanBegin("watcher")
    \/ ThreadScanStep("watcher")
    \/ ThreadSaveOpen("watcher")
    \/ ThreadSaveWrite("watcher")
    \/ ThreadReturn("watcher")
    \/ \E site \in LotKeySites :
           ThreadState("watcher").pc = "idle" /\ AddComponentCall(site)

SpecLotKeys == InitTask /\ [][NextLotKeys]_vars

\* C39: get_lots_by_product(p) returns only lots whose product_id is p, for
\* any product and lot directory names
C39_LotsOfProductBelongToIt ==
    \A product_id \in DOMAIN data_cache.products :
        \A lot \in GetLotsByProduct(data_cache, product_id) :
            lot.product_id = product_id

\* C39: registering a lot never overwrites an existing lot of another
\* product: a lot id that stays registered over a step keeps its product
C39_LotNeverOverwritten ==
    [][\A i \in 1..Len(data_cache.lots) :
          LET lot == data_cache.lots[i]
              after == LotsGet(data_cache'.lots, lot.lot_id)
          IN after # NoLot => after.product_id = lot.product_id]_vars

(***************************************************************************)
(* SpecDailyArchive: the scheduled archive pass over several days.  The    *)
(* scheduler thread calls _run_scheduled_archive from run_pending, which   *)
(* it polls, so that an invocation falls a poll's delay after the          *)
(* configured time of its day.                                             *)
(***************************************************************************)
\* a whole day passes
DayPasses ==
    /\ now < MaxDays * DaySeconds
    /\ now' = now + DaySeconds
    /\ last_call' = Call("day", "", TRUE)
    /\ UNCHANGED <<storageVars, pickupVars, dbVars, ingestVars, watcherVars, catalogVars,
                   delayedVars, schedulerVars, retryVars, taskVars>>

\* the scheduler's poll comes a little later in the day
PollDelay ==
    /\ now % DaySeconds < MaxShortTicks * TickSeconds
    /\ now' = now + TickSeconds
    /\ last_call' = Call("tick", "", TRUE)
    /\ UNCHANGED <<storageVars, pickupVars, dbVars, ingestVars, watcherVars, catalogVars,
                   delayedVars, schedulerVars, retryVars, taskVars>>

NextDailyArchive ==
    \/ PollDelay
    \/ DayPasses
    \/ \E f \in StorageFiles, age \in FileAges : EnvStoreFile(f, age)
    \/ RunScheduledArchive

SpecDailyArchive == InitArchive /\ [][NextDailyArchive]_vars

\* C40: an invocation of the scheduled pass that occurs 3600 seconds or more
\* after the previous executed pass executes; only an invocation within
\* the hour is skipped
C40_SkippedOnlyWithinTheHour ==
    [][(/\ last_call'.op = "scheduled_archive"
        /\ now' = now
        /\ last_scheduled_run # NoTime
        /\ now - last_scheduled_run >= HourSeconds)
          => last_call'.ok]_vars

====
